---- MODULE Spec2Model ----
(***************************************************************************)
(* QA Iguana Agent: the health check engine.                               *)
(*   SSLChecker     src/tests/ssl-checker.js  lines   9..194               *)
(*   UptimeMonitor  src/tests/ssl-checker.js  lines 255..492               *)
(*   LinkValidator  src/unnamed/part_004      lines  10..376               *)
(*   main           src/unnamed/part_000      lines  21..276               *)
(* A JavaScript object is a record; a missing property is a missing field  *)
(* (Has).  A promise is a record that settles once (Resolve).  A network   *)
(* request is a small state machine driven by the events the runtime       *)
(* delivers: response, error, timeout.  Times are milliseconds relative to *)
(* a fixed instant.                                                        *)
(***************************************************************************)
EXTENDS Integers, Sequences, FiniteSets, TLC

VARIABLES
  sslChecker,   \* the SSLChecker object: warningDays, criticalDays
  sslSites,     \* the sites argument of SSLChecker.checkMultipleSites
  sslPc,        \* position in checkMultipleSites / its caller
  sslI,         \* index of the site the for-of loop is at
  sslCall,      \* the checkCertificate call being awaited: promise and request
  sslResults,   \* the results array of checkMultipleSites
  sslSeen,      \* what the environment showed to each call (history)
  sslSummary,   \* generateSummary(results)
  sslRequests,  \* number of https.request calls issued so far
  upMonitor,    \* the UptimeMonitor object: timeout and thresholds
  upSite,       \* the site argument of UptimeMonitor.checkSitePages
  upPc,         \* position in checkSitePages
  upJ,          \* page being probed: 0 the base URL, j the j-th configured page
  upCall,       \* the checkSite call being awaited: promise, request, response
  upOut,        \* the results object checkSitePages builds and returns
  upSeen,       \* what the environment showed to each probe of the site (history)
  upSites,      \* the sites argument of UptimeMonitor.checkMultipleSites
  upmPc,        \* position in checkMultipleSites / its caller
  upI,          \* index of the site the for-of loop is at
  upResults,    \* the results array of checkMultipleSites
  upSummary,    \* generateSummary(results)
  lvSites,      \* the sites argument of LinkValidator.validateMultipleSites
  lvPc,         \* position in validateMultipleSites, validateSite, validatePageLinks
  lvI,          \* index of the site the for-of loop is at
  lvJ,          \* page being scanned: 0 the main page, j the j-th configured page
  lvOut,        \* the results object validateSite builds and returns
  lvPage,       \* locals of validatePageLinks: pageUrl, links (extracted),
                \* uniqueLinks (links), index, results;
                \* what its fetch was shown, checkedUrls and the number of
                \* checkLink calls at that time (history)
  lvCall,       \* the fetchPage or checkLink call being awaited
  lvChecked,    \* this.checkedUrls
  lvProbes,     \* the checkLink calls so far and what each was shown (history)
  lvResults,    \* the results array of validateMultipleSites
  lvSummary,    \* generateSummary(results)
  lvNet,        \* what each URL answers to a GET and to a HEAD, where the
                \* network is held fixed over a run
  mainPc,       \* position in main
  mainOptions,  \* options, parsed from the command line
  mainConfig,   \* loadConfig()
  mainResults,  \* results: the summaries of the checkers that ran
  mainEmail,    \* emailResult
  mainExit      \* the code handed to process.exit

sslVars == <<sslChecker, sslSites, sslPc, sslI, sslCall, sslResults, sslSeen,
             sslSummary, sslRequests>>

upVars == <<upMonitor, upSite, upPc, upJ, upCall, upOut, upSeen>>

upmVars == <<upSites, upmPc, upI, upResults, upSummary>>

lvVars == <<lvSites, lvPc, lvI, lvJ, lvOut, lvPage, lvCall, lvChecked, lvProbes,
            lvResults, lvSummary, lvNet>>

mainVars == <<mainPc, mainOptions, mainConfig, mainResults, mainEmail, mainExit>>

vars == <<sslVars, upVars, upmVars, lvVars, mainVars>>

-----------------------------------------------------------------------------
(* Bounds of the model *)

MaxDays == 8          \* certificates expire at most this many days ahead
MaxCertSites == 1     \* sites handed to the rich certificate specification
ExpiredDays == 2      \* certificates expired at most this many days ago
MaxPages == 2         \* configured pages of a site

-----------------------------------------------------------------------------
(* JavaScript helpers *)

Has(r, f) == f \in DOMAIN r

NoValue == [none |-> TRUE]

\* x || d for numbers: 0 (and undefined, drawn as 0) falls back to d
OrDefault(x, d) == IF x = 0 THEN d ELSE x

Pending == [state |-> "pending", value |-> NoValue]

\* resolve(v) of a promise: the first call settles it, later calls do nothing
ResolveOverwrites(p, v) == [state |-> "fulfilled", value |-> v]

Resolve(p, v) == IF p.state = "pending" THEN [state |-> "fulfilled", value |-> v] ELSE p

\* an exception thrown inside the executor of a promise rejects it
Reject(p, e) == IF p.state = "pending" THEN [state |-> "rejected", value |-> [thrown |-> e]] ELSE p

\* results.push(x) with the element first (not what push does)
PushFront(arr, x) == <<x>> \o arr

\* Array.prototype.push
Push(arr, x) == Append(arr, x)

-----------------------------------------------------------------------------
(* URLs.  A URL string is drawn as the record the WHATWG parser would      *)
(* produce, or as a string the parser rejects (scheme "invalid").          *)

Hosts == {"a.example", "b.example"}

InvalidUrl == [scheme |-> "invalid", host |-> "", path |-> 0, hash |-> ""]

\* a path is drawn as a number: 0 is "/", k is the k-th page of the site
Url(scheme, host, path) ==
  [scheme |-> scheme, host |-> host, path |-> path, hash |-> ""]

\* new URL(s) throws a TypeError exactly for the strings it cannot parse
UrlThrows(s) == s.scheme = "invalid"

BaseUrls == {Url(s, h, 0) : s \in {"https:", "http:"}, h \in Hosts}
              \cup {InvalidUrl}

-----------------------------------------------------------------------------
(* Sites *)

SiteIds == {"s1", "s2"}

SiteName(id) == IF id = "s1" THEN "Site One" ELSE "Site Two"

Page(path, name) == [path |-> path, name |-> name]

Site(id, url, pages) ==
  [id |-> id, name |-> SiteName(id), url |-> url, pages |-> pages]

SeqsUpTo(S, n) == UNION {[1..k -> S] : k \in 0..n}

-----------------------------------------------------------------------------
(* SSLChecker *)

DefaultWarningDays == 30
DefaultCriticalDays == 7
MsPerDay == 1000 * 60 * 60 * 24

SSLCheckerNew(options) ==
  [warningDays  |-> OrDefault(options.warningDays, DefaultWarningDays),
   criticalDays |-> OrDefault(options.criticalDays, DefaultCriticalDays)]

\* Math.floor((validTo - now) / (1000 * 60 * 60 * 24))
DaysRemainingTruncated(validTo, now) ==
  IF validTo >= now THEN (validTo - now) \div MsPerDay
                    ELSE -((now - validTo) \div MsPerDay)

DaysRemaining(validTo, now) == (validTo - now) \div MsPerDay

CertStatusThresholdFirst(isExpired, isNotYetValid, daysRemaining, checker) ==
  IF daysRemaining <= checker.warningDays /\ daysRemaining > checker.criticalDays
    THEN "warning"
  ELSE IF isExpired \/ isNotYetValid THEN "critical"
  ELSE IF daysRemaining <= checker.criticalDays THEN "critical"
  ELSE "ok"

CertStatus(isExpired, isNotYetValid, daysRemaining, checker) ==
  IF isExpired \/ isNotYetValid THEN "critical"
  ELSE IF daysRemaining <= checker.criticalDays THEN "critical"
  ELSE IF daysRemaining <= checker.warningDays THEN "warning"
  ELSE "ok"

\* the response callback of checkCertificate for a certificate, lines 57-87
CertResult(url, cert, authorized, now, checker) ==
  LET daysRemaining == DaysRemaining(cert.validTo, now)
      isExpired     == now > cert.validTo
      isNotYetValid == now < cert.validFrom
  IN [url           |-> url,
      hostname      |-> url.host,
      valid         |-> ~isExpired /\ ~isNotYetValid /\ authorized,
      validFrom     |-> cert.validFrom,
      validTo       |-> cert.validTo,
      daysRemaining |-> daysRemaining,
      isExpired     |-> isExpired,
      status        |-> CertStatus(isExpired, isNotYetValid, daysRemaining, checker)]

CertError(url, message) ==
  [url |-> url, hostname |-> url.host, valid |-> FALSE, error |-> message,
   status |-> "error"]

\* the results built before / without a parsed URL carry no hostname
CertErrorNoHost(url, message) ==
  [url |-> url, valid |-> FALSE, error |-> message, status |-> "error"]

\* getPeerCertificate() of a connection without certificate: an object
\* without keys
EmptyCert == [none |-> TRUE]
CertIsEmpty(cert) == cert = EmptyCert

\* the response callback of checkCertificate, lines 43-88
CertResponse(url, cert, authorized, now, checker) ==
  IF CertIsEmpty(cert) THEN CertError(url, "No certificate found")
  ELSE CertResult(url, cert, authorized, now, checker)

-----------------------------------------------------------------------------
(* Inputs of the certificate checks *)

Now == {0}                         \* new Date() at the response

WarningDaysOptions == {0, 3, 7}    \* options.warningDays (0: not given)
CriticalDaysOptions == {0, 2}      \* options.criticalDays (0: not given)

ValidToTimes == {d * MsPerDay + e : d \in (0 - ExpiredDays)..MaxDays, e \in {-1, 0}}
ValidFromTimes == {(0 - (ExpiredDays + 1)) * MsPerDay, 1}

Certs == {c \in [validFrom : ValidFromTimes, validTo : ValidToTimes] :
            c.validFrom < c.validTo}

ErrorMessages == {"getaddrinfo ENOTFOUND", "connect ECONNREFUSED"}

CertSites == {Site(id, u, <<>>) :
                id \in SiteIds,
                u \in {Url("https:", "a.example", 0),
                       Url("http:", "a.example", 0), InvalidUrl}}

NoCall == [promise |-> Pending, req |-> "none", seen |-> NoValue]

\* a checker used on its own, outside main
MainOff ==
  /\ mainPc = "off"
  /\ mainOptions = NoValue
  /\ mainConfig = NoValue
  /\ mainResults = NoValue
  /\ mainEmail = NoValue
  /\ mainExit = NoValue

\* a checker that the program under study does not run
UptimeOff ==
  /\ upMonitor = NoValue
  /\ upSite = NoValue
  /\ upPc = "off"
  /\ upJ = 0
  /\ upCall = NoValue
  /\ upOut = NoValue
  /\ upSeen = <<>>
  /\ upSites = <<>>
  /\ upmPc = "off"
  /\ upI = 0
  /\ upResults = <<>>
  /\ upSummary = NoValue

LinksOff ==
  /\ lvSites = <<>>
  /\ lvPc = "off"
  /\ lvI = 0
  /\ lvJ = 0
  /\ lvOut = NoValue
  /\ lvPage = NoValue
  /\ lvCall = NoValue
  /\ lvChecked = {}
  /\ lvProbes = <<>>
  /\ lvResults = <<>>
  /\ lvSummary = NoValue
  /\ lvNet = NoValue

SSLOff ==
  /\ sslChecker = NoValue
  /\ sslSites = <<>>
  /\ sslPc = "off"
  /\ sslI = 0
  /\ sslCall = NoValue
  /\ sslResults = <<>>
  /\ sslSeen = <<>>
  /\ sslSummary = NoValue
  /\ sslRequests = 0

-----------------------------------------------------------------------------
(* SSLChecker.checkMultipleSites and checkCertificate *)

SSLCheckMultipleSites ==
  /\ sslPc = "start"
  /\ sslPc' = "loop"
  /\ sslI' = 1
  /\ sslResults' = <<>>
  /\ UNCHANGED <<sslChecker, sslSites, sslCall, sslSeen, sslSummary, sslRequests>>
  /\ UNCHANGED <<upVars, upmVars, lvVars, mainVars>>

\* the executor of the promise of checkCertificate(urlString), lines 21-120,
\* up to req.end(): the call as it stands when the executor returns
CertCallStartNoCatch(url) ==
  IF UrlThrows(url)
    THEN [promise |-> Reject(Pending, "TypeError: Invalid URL"),
          req |-> "none", seen |-> [event |-> "invalid"]]
  ELSE IF url.scheme # "https:"
    THEN [promise |-> Resolve(Pending, CertErrorNoHost(url, "Not HTTPS")),
          req |-> "none", seen |-> [event |-> "nothttps"]]
  ELSE [promise |-> Pending, req |-> "open", seen |-> NoValue]

CertCallStartAnyScheme(url) ==
  IF UrlThrows(url)
    THEN [promise |-> Resolve(Pending, CertErrorNoHost(url, "Invalid URL")),
          req |-> "none", seen |-> [event |-> "invalid"]]
  ELSE [promise |-> Pending, req |-> "open", seen |-> NoValue]

CertCallStart(url) ==
  IF UrlThrows(url)
    THEN [promise |-> Resolve(Pending, CertErrorNoHost(url, "Invalid URL")),
          req |-> "none", seen |-> [event |-> "invalid"]]
  ELSE IF url.scheme # "https:"
    THEN [promise |-> Resolve(Pending, CertErrorNoHost(url, "Not HTTPS")),
          req |-> "none", seen |-> [event |-> "nothttps"]]
  ELSE [promise |-> Pending, req |-> "open", seen |-> NoValue]

\* the loop body up to the await, lines 131-133
SSLCheckCertificate ==
  /\ sslPc = "loop"
  /\ sslI <= Len(sslSites)
  /\ sslCall' = CertCallStart(sslSites[sslI].url)
  /\ sslRequests' = sslRequests + (IF sslCall'.req = "open" THEN 1 ELSE 0)
  /\ sslPc' = "await"
  /\ UNCHANGED <<sslChecker, sslSites, sslI, sslResults, sslSeen, sslSummary>>
  /\ UNCHANGED <<upVars, upmVars, lvVars, mainVars>>

\* the response callback, lines 43-88
SSLOnResponse(certs) ==
  /\ sslPc = "await"
  /\ sslCall.req = "open"
  /\ \E cert \in certs, authorized \in BOOLEAN, now \in Now :
       sslCall' = [promise |-> Resolve(sslCall.promise,
                                 CertResponse(sslSites[sslI].url, cert, authorized,
                                              now, sslChecker)),
                   req |-> "closed",
                   seen |-> [event |-> "response", cert |-> cert,
                             authorized |-> authorized, now |-> now]]
  /\ UNCHANGED <<sslChecker, sslSites, sslPc, sslI, sslResults, sslSeen, sslSummary,
                 sslRequests>>
  /\ UNCHANGED <<upVars, upmVars, lvVars, mainVars>>

\* req.on('error'), lines 90-98; also delivered after req.destroy()
SSLOnError ==
  /\ sslPc = "await"
  /\ sslCall.req \in {"open", "destroyed"}
  /\ \E msg \in ErrorMessages :
       sslCall' = [promise |-> Resolve(sslCall.promise,
                                 CertError(sslSites[sslI].url, msg)),
                   req |-> "closed",
                   seen |-> IF sslCall.req = "open"
                              THEN [event |-> "error", message |-> msg]
                              ELSE sslCall.seen]
  /\ UNCHANGED <<sslChecker, sslSites, sslPc, sslI, sslResults, sslSeen, sslSummary,
                 sslRequests>>
  /\ UNCHANGED <<upVars, upmVars, lvVars, mainVars>>

\* req.on('timeout'), lines 100-109
SSLOnTimeout ==
  /\ sslPc = "await"
  /\ sslCall.req = "open"
  /\ sslCall' = [promise |-> Resolve(sslCall.promise,
                               CertError(sslSites[sslI].url, "Connection timeout")),
                 req |-> "destroyed", seen |-> [event |-> "timeout"]]
  /\ UNCHANGED <<sslChecker, sslSites, sslPc, sslI, sslResults, sslSeen, sslSummary,
                 sslRequests>>
  /\ UNCHANGED <<upVars, upmVars, lvVars, mainVars>>

\* graft of siteName and siteId onto the awaited result, lines 134-135
WithSite(result, site) ==
  [f \in DOMAIN result \cup {"siteName", "siteId"} |->
     IF f = "siteName" THEN site.name
     ELSE IF f = "siteId" THEN site.id
     ELSE result[f]]

\* the continuation of the await in the loop body, lines 133-136
SSLAwaitResume ==
  /\ sslPc = "await"
  /\ sslCall.promise.state # "pending"
  /\ sslSeen' = Append(sslSeen, sslCall.seen)
  /\ sslCall' = NoCall
  /\ IF sslCall.promise.state = "fulfilled"
       THEN /\ sslResults' = Push(sslResults,
                                WithSite(sslCall.promise.value, sslSites[sslI]))
            /\ sslI' = sslI + 1
            /\ sslPc' = "loop"
       ELSE \* the await throws: checkMultipleSites rejects
            /\ sslPc' = "rejected"
            /\ UNCHANGED <<sslResults, sslI>>
  /\ UNCHANGED <<sslChecker, sslSites, sslSummary, sslRequests>>
  /\ UNCHANGED <<upVars, upmVars, lvVars, mainVars>>

SSLReturn ==
  /\ sslPc = "loop"
  /\ sslI > Len(sslSites)
  /\ sslPc' = "returned"
  /\ UNCHANGED <<sslChecker, sslSites, sslI, sslCall, sslResults, sslSeen, sslSummary,
                 sslRequests>>
  /\ UNCHANGED <<upVars, upmVars, lvVars, mainVars>>

SSLSummaryWarningUnhealthy(results) ==
  LET n(S)     == Cardinality(S)
      idx      == 1..Len(results)
      invalid  == n({i \in idx : ~results[i].valid})
      critical == n({i \in idx : results[i].status = "critical"})
      errors   == n({i \in idx : results[i].status = "error"})
      expiring == n({i \in idx : results[i].status = "warning"})
  IN [total        |-> Len(results),
      valid        |-> n({i \in idx : results[i].valid}),
      invalid      |-> invalid,
      expiringSoon |-> expiring,
      critical     |-> critical,
      errors       |-> errors,
      details      |-> results,
      allHealthy   |-> invalid = 0 /\ critical = 0 /\ errors = 0 /\ expiring = 0]

\* SSLChecker.generateSummary, lines 147-161
SSLSummary(results) ==
  LET n(S)     == Cardinality(S)
      idx      == 1..Len(results)
      invalid  == n({i \in idx : ~results[i].valid})
      critical == n({i \in idx : results[i].status = "critical"})
      errors   == n({i \in idx : results[i].status = "error"})
  IN [total        |-> Len(results),
      valid        |-> n({i \in idx : results[i].valid}),
      invalid      |-> invalid,
      expiringSoon |-> n({i \in idx : results[i].status = "warning"}),
      critical     |-> critical,
      errors       |-> errors,
      details      |-> results,
      allHealthy   |-> invalid = 0 /\ critical = 0 /\ errors = 0]

SSLGenerateSummary ==
  /\ sslPc = "returned"
  /\ sslSummary' = SSLSummary(sslResults)
  /\ sslPc' = "done"
  /\ UNCHANGED <<sslChecker, sslSites, sslI, sslCall, sslResults, sslSeen, sslRequests>>
  /\ UNCHANGED <<upVars, upmVars, lvVars, mainVars>>

\* the standalone main of ssl-checker.js, lines 204-221
InitSSL ==
  /\ UptimeOff
  /\ LinksOff
  /\ MainOff
  /\ \E w \in WarningDaysOptions, c \in CriticalDaysOptions :
       sslChecker = SSLCheckerNew([warningDays |-> w, criticalDays |-> c])
  /\ sslSites \in SeqsUpTo(CertSites, MaxCertSites)
  /\ sslPc = "start"
  /\ sslI = 0
  /\ sslCall = NoCall
  /\ sslResults = <<>>
  /\ sslSeen = <<>>
  /\ sslSummary = NoValue
  /\ sslRequests = 0

NextSSL ==
  \/ SSLCheckMultipleSites
  \/ SSLCheckCertificate
  \/ SSLOnResponse(Certs \cup {EmptyCert})
  \/ SSLOnError
  \/ SSLOnTimeout
  \/ SSLAwaitResume
  \/ SSLReturn
  \/ SSLGenerateSummary

SpecSSL == InitSSL /\ [][NextSSL]_vars

-----------------------------------------------------------------------------
(* Properties of SSLChecker, checked under SpecSSL *)

\* the calls whose result is in sslResults and that read a certificate
CertReads == {i \in 1..Len(sslResults) :
                sslSeen[i].event = "response" /\ ~CertIsEmpty(sslSeen[i].cert)}

\* C1: for every certificate read and every pair of thresholds, the status
\* is the first match of: outside the validity window -> critical;
\* daysRemaining <= criticalDays -> critical; daysRemaining <= warningDays
\* -> warning; otherwise ok.
C1_StatusPrecedence ==
  \A i \in CertReads :
    LET r == sslResults[i]
        s == sslSeen[i]
    IN /\ (s.now > s.cert.validTo \/ s.now < s.cert.validFrom)
            => r.status = "critical"
       /\ (~(s.now > s.cert.validTo \/ s.now < s.cert.validFrom)
             /\ r.daysRemaining <= sslChecker.criticalDays)
            => r.status = "critical"
       /\ (~(s.now > s.cert.validTo \/ s.now < s.cert.validFrom)
             /\ r.daysRemaining > sslChecker.criticalDays
             /\ r.daysRemaining <= sslChecker.warningDays)
            => r.status = "warning"
       /\ (~(s.now > s.cert.validTo \/ s.now < s.cert.validFrom)
             /\ r.daysRemaining > sslChecker.criticalDays
             /\ r.daysRemaining > sslChecker.warningDays)
            => r.status = "ok"

\* a certificate within its window, with warningDays <= criticalDays and
\* daysRemaining between the two, was classified critical
C1_Witness ==
  \E i \in CertReads :
    /\ sslChecker.warningDays < sslChecker.criticalDays
    /\ sslSeen[i].now <= sslSeen[i].cert.validTo
    /\ sslSeen[i].now >= sslSeen[i].cert.validFrom
    /\ sslResults[i].daysRemaining > sslChecker.warningDays
    /\ sslResults[i].daysRemaining <= sslChecker.criticalDays
    /\ sslResults[i].status = "critical"

\* C2: daysRemaining is floor((notAfter - now) / 1 day); an expired
\* certificate has a negative daysRemaining and status critical; notAfter
\* exactly 5 days ahead with criticalDays = 7 gives daysRemaining 5, critical.
C2_DaysRemainingFloor ==
  \A i \in CertReads :
    LET r == sslResults[i]
        s == sslSeen[i]
        left == s.cert.validTo - s.now
    IN /\ r.daysRemaining * MsPerDay <= left
       /\ left < (r.daysRemaining + 1) * MsPerDay
       /\ s.now > s.cert.validTo => (r.daysRemaining < 0 /\ r.status = "critical")
       /\ (left = 5 * MsPerDay /\ sslChecker.criticalDays = 7)
            => (r.daysRemaining = 5 /\ r.status = "critical")

\* a certificate that expired one millisecond ago: daysRemaining is -1
C2_Witness ==
  \E i \in CertReads :
    /\ sslSeen[i].cert.validTo - sslSeen[i].now = -1
    /\ sslResults[i].daysRemaining = -1
    /\ sslResults[i].status = "critical"

\* the checkCertificate calls started so far
CertCallsStarted == IF sslPc = "await" THEN sslI
                    ELSE IF sslI = 0 THEN 0 ELSE sslI - 1

\* C3: a URL whose scheme is not https resolves with status error and valid
\* false, and no network request is ever issued for it.
C3_NotHttpsNoRequest ==
  /\ sslRequests = Cardinality({i \in 1..CertCallsStarted :
                                  sslSites[i].url.scheme = "https:"})
  /\ \A i \in 1..Len(sslResults) :
       sslSites[i].url.scheme # "https:"
         => sslResults[i].status = "error" /\ sslResults[i].valid = FALSE
  /\ (sslPc = "await" /\ sslSites[sslI].url.scheme # "https:")
       => /\ sslCall.req = "none"
          /\ sslCall.promise.state = "fulfilled"
          /\ sslCall.promise.value.status = "error"
          /\ sslCall.promise.value.valid = FALSE

\* an http site has its result and no request was issued
C3_Witness ==
  /\ Len(sslResults) = 1
  /\ sslSites[1].url.scheme = "http:"
  /\ sslResults[1].status = "error"
  /\ sslResults[1].error = "Not HTTPS"
  /\ sslRequests = 0

\* C4: every checkCertificate call resolves to a result record and never
\* rejects or throws: its promise is pending only while the request can
\* still deliver an event, it is never rejected, and every failure outcome
\* (unparsable URL, error, timeout, empty certificate) carries status error,
\* valid false and an error message.
C4_AlwaysResolves ==
  /\ sslPc # "rejected"
  /\ sslCall.promise.state # "rejected"
  /\ (sslPc = "await" /\ sslCall.promise.state = "pending") => sslCall.req = "open"
  /\ \A i \in 1..Len(sslResults) :
       i \notin CertReads
         => /\ sslResults[i].status = "error"
            /\ sslResults[i].valid = FALSE
            /\ Has(sslResults[i], "error")
            /\ (sslSeen[i].event = "error"
                  => sslResults[i].error = sslSeen[i].message)

\* the call for an unparsable URL has resolved with an error record
C4_Witness ==
  /\ Len(sslResults) = 1
  /\ UrlThrows(sslSites[1].url)
  /\ sslSeen[1].event = "invalid"
  /\ sslResults[1].status = "error"
  /\ sslResults[1].valid = FALSE
  /\ Has(sslResults[1], "error")

-----------------------------------------------------------------------------
(* UptimeMonitor *)

DefaultTimeout == 10000
DefaultWarningThreshold == 2000
DefaultCriticalThreshold == 5000

UptimeMonitorNew(options) ==
  [timeout           |-> OrDefault(options.timeout, DefaultTimeout),
   warningThreshold  |-> OrDefault(options.warningThreshold, DefaultWarningThreshold),
   criticalThreshold |-> OrDefault(options.criticalThreshold, DefaultCriticalThreshold)]

\* new URL(path, base).toString(): throws when the base cannot be parsed
ResolveThrows(path, base) == UrlThrows(base)
ResolveUrl(path, base) == Url(base.scheme, base.host, path)

ProbeStatusWarningFirst(isUp, responseTime, monitor) ==
  IF ~isUp THEN "down"
  ELSE IF responseTime >= monitor.warningThreshold THEN "warning"
  ELSE IF responseTime >= monitor.criticalThreshold THEN "critical"
  ELSE "ok"

\* lines 295-302
ProbeStatus(isUp, responseTime, monitor) ==
  IF ~isUp THEN "down"
  ELSE IF responseTime >= monitor.criticalThreshold THEN "critical"
  ELSE IF responseTime >= monitor.warningThreshold THEN "warning"
  ELSE "ok"

\* the result of the end handler, lines 292-320
ProbeEnd(url, res, monitor) ==
  LET isUp == res.statusCode >= 200 /\ res.statusCode < 400
  IN [url          |-> url,
      hostname     |-> url.host,
      isUp         |-> isUp,
      statusCode   |-> res.statusCode,
      responseTime |-> res.responseTime,
      status       |-> ProbeStatus(isUp, res.responseTime, monitor)]

\* the result of the error and timeout handlers, lines 323-349
ProbeFailed(url, message, responseTime) ==
  [url |-> url, hostname |-> url.host, isUp |-> FALSE, error |-> message,
   responseTime |-> responseTime, status |-> "down"]

\* the result of the catch block, lines 352-360
ProbeThrown(url, message) ==
  [url |-> url, isUp |-> FALSE, error |-> message, status |-> "error"]

\* the executor of the promise of checkSite(urlString), lines 268-361, up to
\* req.end()
ProbeCallStart(url) ==
  IF UrlThrows(url)
    THEN [promise |-> Resolve(Pending, ProbeThrown(url, "Invalid URL")),
          req |-> "none", url |-> url, res |-> NoValue,
          seen |-> [event |-> "invalid"]]
  ELSE [promise |-> Pending, req |-> "open", url |-> url, res |-> NoValue,
        seen |-> NoValue]

NoProbe == [promise |-> Pending, req |-> "none", url |-> InvalidUrl,
            res |-> NoValue, seen |-> NoValue]

\* the response callback, lines 286-291: the latency is taken here
UpOnResponse(codes, latencies) ==
  /\ upPc = "await"
  /\ upCall.req = "open"
  /\ \E code \in codes, t \in latencies :
       upCall' = [upCall EXCEPT !.req = "streaming",
                                !.res = [statusCode |-> code, responseTime |-> t]]
  /\ UNCHANGED <<upMonitor, upSite, upPc, upJ, upOut, upSeen>>
  /\ UNCHANGED <<sslVars, upmVars, lvVars, mainVars>>

\* res.on('end'), lines 292-320; the body has taken transfer milliseconds
\* from the response callback to its end
UpOnEnd(transfers) ==
  /\ upPc = "await"
  /\ upCall.req = "streaming"
  /\ \E transfer \in transfers :
       upCall' = [upCall EXCEPT
                    !.promise = Resolve(@, ProbeEnd(upCall.url, upCall.res, upMonitor)),
                    !.req = "closed",
                    !.seen = [event |-> "end", statusCode |-> upCall.res.statusCode,
                              latency |-> upCall.res.responseTime,
                              ended |-> upCall.res.responseTime + transfer]]
  /\ UNCHANGED <<upMonitor, upSite, upPc, upJ, upOut, upSeen>>
  /\ UNCHANGED <<sslVars, upmVars, lvVars, mainVars>>

\* the connection closes after the headers and before the body has ended:
\* the response is aborted, neither 'end' nor the request's 'error' follows
UpOnAborted ==
  /\ upPc = "await"
  /\ upCall.req = "streaming"
  /\ upCall' = [upCall EXCEPT !.req = "aborted"]
  /\ UNCHANGED <<upMonitor, upSite, upPc, upJ, upOut, upSeen>>
  /\ UNCHANGED <<sslVars, upmVars, lvVars, mainVars>>

\* req.on('error'), lines 323-335; also delivered after req.destroy()
UpOnError(messages, latencies) ==
  /\ upPc = "await"
  /\ upCall.req \in {"open", "destroyed"}
  /\ \E msg \in messages, t \in latencies :
       upCall' = [upCall EXCEPT
                    !.promise = Resolve(@, ProbeFailed(upCall.url, msg, t)),
                    !.req = "closed",
                    !.seen = IF upCall.req = "open"
                               THEN [event |-> "error", latency |-> t]
                               ELSE @]
  /\ UNCHANGED <<upMonitor, upSite, upPc, upJ, upOut, upSeen>>
  /\ UNCHANGED <<sslVars, upmVars, lvVars, mainVars>>

\* the socket has been idle for this.timeout milliseconds
TimeoutElapsed(call, monitor) ==
  monitor.timeout + (IF call.req = "streaming" THEN call.res.responseTime ELSE 0)

\* req.on('timeout'), lines 337-349
UpOnTimeout ==
  /\ upPc = "await"
  /\ upCall.req \in {"open", "streaming"}
  /\ upCall' = [upCall EXCEPT
                  !.promise = Resolve(@, ProbeFailed(upCall.url, "Connection timeout",
                                                     TimeoutElapsed(upCall, upMonitor))),
                  !.req = "destroyed",
                  !.seen = [event |-> "timeout",
                            latency |-> TimeoutElapsed(upCall, upMonitor)]]
  /\ UNCHANGED <<upMonitor, upSite, upPc, upJ, upOut, upSeen>>
  /\ UNCHANGED <<sslVars, upmVars, lvVars, mainVars>>

-----------------------------------------------------------------------------
(* UptimeMonitor.checkSitePages *)

\* lines 396-404
OverallStatusIgnoresError(pages) ==
  LET statuses == {pages[k].status : k \in 1..Len(pages)}
  IN IF "down" \in statuses THEN "down"
     ELSE IF "critical" \in statuses THEN "critical"
     ELSE IF "warning" \in statuses THEN "warning"
     ELSE "ok"

OverallStatus(pages) ==
  LET statuses == {pages[k].status : k \in 1..Len(pages)}
  IN IF "down" \in statuses \/ "error" \in statuses THEN "down"
     ELSE IF "critical" \in statuses THEN "critical"
     ELSE IF "warning" \in statuses THEN "warning"
     ELSE "ok"

RECURSIVE SumTimes(_)
SumTimes(times) ==
  IF times = <<>> THEN 0 ELSE Head(times) + SumTimes(Tail(times))

\* Math.round(a / n) for a >= 0, n > 0: halves round up
RoundDiv(a, n) == (2 * a + n) \div (2 * n)

\* p => p.responseTime: the property exists and is not 0
HasResponseTime(p) == Has(p, "responseTime") /\ p.responseTime # 0

\* null as a value of avgResponseTime: below every response time
Null == -1

\* lines 406-410
AvgResponseTime(pages) ==
  LET valid == SelectSeq(pages, HasResponseTime)
      validTimes == [k \in 1..Len(valid) |-> valid[k].responseTime]
  IN IF Len(validTimes) > 0
       THEN RoundDiv(SumTimes(validTimes), Len(validTimes))
       ELSE Null

\* pageResult.pageName = ...; pageResult.pagePath = ..., lines 381, 390-391
WithPage(result, j, site) ==
  [f \in DOMAIN result \cup (IF j = 0 THEN {"pageName"} ELSE {"pageName", "pagePath"}) |->
     IF f = "pageName" THEN (IF j = 0 THEN "Main" ELSE site.pages[j].name)
     ELSE IF f = "pagePath" THEN site.pages[j].path
     ELSE result[f]]

\* lines 370-380: the results object, and the probe of the base URL
UpCheckSitePages ==
  /\ upPc = "call"
  /\ upOut' = [siteId |-> upSite.id, siteName |-> upSite.name, baseUrl |-> upSite.url,
               pages |-> <<>>, overallStatus |-> "ok"]
  /\ upSeen' = <<>>
  /\ upJ' = 0
  /\ upCall' = ProbeCallStart(upSite.url)
  /\ upPc' = "await"
  /\ UNCHANGED <<upMonitor, upSite>>
  /\ UNCHANGED <<sslVars, upmVars, lvVars, mainVars>>

\* the continuation of an await of checkSite, up to the next await or the
\* return: lines 381-394 and 396-412
UpAwaitResume ==
  /\ upPc = "await"
  /\ upCall.promise.state = "fulfilled"
  /\ LET pages == Append(upOut.pages, WithPage(upCall.promise.value, upJ, upSite))
     IN /\ upSeen' = Append(upSeen, upCall.seen)
        /\ IF upJ < Len(upSite.pages)
             THEN IF ResolveThrows(upSite.pages[upJ + 1].path, upSite.url)
                    THEN \* new URL throws: checkSitePages rejects
                         /\ upOut' = [upOut EXCEPT !.pages = pages]
                         /\ upPc' = "rejected"
                         /\ upCall' = NoProbe
                         /\ UNCHANGED upJ
                    ELSE /\ upOut' = [upOut EXCEPT !.pages = pages]
                         /\ upJ' = upJ + 1
                         /\ upCall' = ProbeCallStart(
                                        ResolveUrl(upSite.pages[upJ + 1].path, upSite.url))
                         /\ UNCHANGED upPc
             ELSE /\ upOut' = [f \in DOMAIN upOut \cup {"avgResponseTime"} |->
                                 IF f = "pages" THEN pages
                                 ELSE IF f = "overallStatus" THEN OverallStatus(pages)
                                 ELSE IF f = "avgResponseTime" THEN AvgResponseTime(pages)
                                 ELSE upOut[f]]
                  /\ upPc' = "returned"
                  /\ upCall' = NoProbe
                  /\ UNCHANGED upJ
  /\ UNCHANGED <<upMonitor, upSite>>
  /\ UNCHANGED <<sslVars, upmVars, lvVars, mainVars>>

-----------------------------------------------------------------------------
(* Inputs of the availability probes *)

StatusCodes == {200, 399, 400, 500}
\* milliseconds from the start of a request to its response or error
Latencies == {0, 1, 2}

\* options.warningThreshold, options.criticalThreshold (0: not given)
ThresholdOptions == {[warningThreshold |-> 0, criticalThreshold |-> 0],
                     [warningThreshold |-> 1, criticalThreshold |-> 2],
                     [warningThreshold |-> 2, criticalThreshold |-> 1]}

\* the k configured pages of a site, in configuration order: paths k, .., 1
Pages(k) == [j \in 1..k |-> Page(k + 1 - j, "Page")]

ProbeSites == {Site("s1", u, Pages(k)) :
                 u \in {Url("https:", "a.example", 0), InvalidUrl},
                 k \in 0..MaxPages}

\* a call of checkSitePages(site) on a monitor built by main, lines 510-513
InitUptime ==
  /\ SSLOff
  /\ LinksOff
  /\ MainOff
  /\ upSites = <<>>
  /\ upmPc = "off"
  /\ upI = 0
  /\ upResults = <<>>
  /\ upSummary = NoValue
  /\ \E o \in ThresholdOptions :
       upMonitor = UptimeMonitorNew([timeout |-> 0,
                                     warningThreshold |-> o.warningThreshold,
                                     criticalThreshold |-> o.criticalThreshold])
  /\ upSite \in ProbeSites
  /\ upPc = "call"
  /\ upJ = 0
  /\ upCall = NoProbe
  /\ upOut = NoValue
  /\ upSeen = <<>>

NextUptime ==
  \/ UpCheckSitePages
  \/ UpOnResponse(StatusCodes, Latencies)
  \/ UpOnEnd({0})
  \/ UpOnAborted
  \/ UpOnError({"connect ECONNREFUSED"}, Latencies)
  \/ UpOnTimeout
  \/ UpAwaitResume

SpecUptime == InitUptime /\ [][NextUptime]_vars

\* milliseconds from the response callback to the end of the body
\* the same calls with bodies that take time to arrive
NextTransfer ==
  \/ UpCheckSitePages
  \/ UpOnResponse({200, 500}, Latencies)
  \/ UpOnEnd({0, 1})
  \/ UpOnAborted
  \/ UpOnError({"connect ECONNREFUSED"}, Latencies)
  \/ UpOnTimeout
  \/ UpAwaitResume

SpecTransfer == InitUptime /\ [][NextTransfer]_vars

-----------------------------------------------------------------------------
(* Properties of UptimeMonitor.checkSite and checkSitePages, checked under *)
(* SpecUptime                                                              *)

\* the probes of the site whose result is in upOut.pages
Probed == IF upPc \in {"await", "returned", "rejected"}
            THEN 1..Len(upOut.pages) ELSE {}

\* the probes for which a request was issued
Requested == {k \in Probed : upSeen[k].event # "invalid"}

\* C7: for every page probe, the status is down if the request errors,
\* times out or returns a status code outside [200,400); otherwise critical
\* if latency >= criticalThreshold; otherwise warning if latency >=
\* warningThreshold; otherwise ok.
C7_ProbeClassification ==
  \A k \in Requested :
    LET r == upOut.pages[k]
        e == upSeen[k]
    IN r.status =
         IF e.event \in {"error", "timeout"} THEN "down"
         ELSE IF e.statusCode < 200 \/ e.statusCode >= 400 THEN "down"
         ELSE IF r.responseTime >= upMonitor.criticalThreshold THEN "critical"
         ELSE IF r.responseTime >= upMonitor.warningThreshold THEN "warning"
         ELSE "ok"

\* a 2xx response at or above both thresholds was classified critical
C7_Witness ==
  \E k \in Requested :
    /\ upSeen[k].event = "end"
    /\ upSeen[k].statusCode = 200
    /\ upOut.pages[k].responseTime >= upMonitor.criticalThreshold
    /\ upOut.pages[k].responseTime >= upMonitor.warningThreshold
    /\ upOut.pages[k].status = "critical"

\* down > critical > warning > ok, an error counted as down
Severity(status) ==
  IF status \in {"down", "error"} THEN 3
  ELSE IF status = "critical" THEN 2
  ELSE IF status = "warning" THEN 1
  ELSE 0

\* C8: overallStatus is the worst status among the page results under
\* down > critical > warning > ok, an error counted as down; one page
\* returning a 5xx makes overallStatus down.
C8_OverallIsWorst ==
  upPc = "returned" =>
    /\ upOut.overallStatus \in {"down", "critical", "warning", "ok"}
    /\ \A k \in Probed : Severity(upOut.pages[k].status) <= Severity(upOut.overallStatus)
    /\ \E k \in Probed : Severity(upOut.pages[k].status) = Severity(upOut.overallStatus)
    /\ (\E k \in Probed : Has(upOut.pages[k], "statusCode")
                            /\ upOut.pages[k].statusCode >= 500)
         => upOut.overallStatus = "down"

\* the base URL answered 200 below the thresholds, a configured page
\* answered 500, and the site is down
C8_Witness ==
  /\ upPc = "returned"
  /\ Len(upOut.pages) >= 2
  /\ upOut.pages[1].status = "ok"
  /\ \E k \in Probed : /\ Has(upOut.pages[k], "statusCode")
                       /\ upOut.pages[k].statusCode = 500
  /\ upOut.overallStatus = "down"

\* C9: checkSitePages probes the base URL and every configured page
\* regardless of the outcome of earlier probes: when it ends, the pages list
\* has 1 + (number of configured pages) entries, in configuration order.
C9_AllPagesProbed ==
  upPc \in {"returned", "rejected"} =>
    /\ Len(upOut.pages) = 1 + Len(upSite.pages)
    /\ \A k \in 2..Len(upOut.pages) :
         upOut.pages[k].pagePath = upSite.pages[k - 1].path

\* the part of C9 the code keeps: a probe that is down (or any other
\* outcome of an issued request) never stops the probes after it
C9_DownDoesNotStop ==
  (upPc = "returned" \/ (upPc = "rejected" /\ ~UrlThrows(upSite.url))) =>
    /\ Len(upOut.pages) = 1 + Len(upSite.pages)
    /\ \A k \in 2..Len(upOut.pages) :
         upOut.pages[k].pagePath = upSite.pages[k - 1].path

\* the pages that received a complete response
Answered == {k \in Probed : upSeen[k].event = "end"}

RECURSIVE SumOver(_, _)
SumOver(S, pages) ==
  IF S = {} THEN 0
  ELSE LET k == CHOOSE x \in S : TRUE
       IN pages[k].responseTime + SumOver(S \ {k}, pages)

\* C10: avgResponseTime is the mean over exactly the pages that produced a
\* numeric latency; pages whose request failed without connecting (error or
\* timeout) are excluded; null when no page qualifies.
C10_AvgOverAnsweredPages ==
  upPc = "returned" =>
    upOut.avgResponseTime =
      IF Answered = {} THEN Null
      ELSE RoundDiv(SumOver(Answered, upOut.pages), Cardinality(Answered))

-----------------------------------------------------------------------------
(* UptimeMonitor.checkMultipleSites and generateSummary *)

\* lines 420-421
UpCheckMultipleSites ==
  /\ upmPc = "start"
  /\ upResults' = <<>>
  /\ upI' = 1
  /\ upmPc' = "loop"
  /\ UNCHANGED <<upSites, upSummary>>
  /\ UNCHANGED <<sslVars, upVars, lvVars, mainVars>>

\* lines 423-425: the call of checkSitePages(site)
UpCallSite ==
  /\ upmPc = "loop"
  /\ upI <= Len(upSites)
  /\ upSite' = upSites[upI]
  /\ upPc' = "call"
  /\ upmPc' = "await"
  /\ UNCHANGED <<upSites, upI, upResults, upSummary>>
  /\ UNCHANGED <<upMonitor, upJ, upCall, upOut, upSeen>>
  /\ UNCHANGED <<sslVars, lvVars, mainVars>>

\* lines 425-426: the continuation of the await; a rejection of
\* checkSitePages is not caught and rejects checkMultipleSites
UpSiteResume ==
  /\ upmPc = "await"
  /\ upPc \in {"returned", "rejected"}
  /\ IF upPc = "returned"
       THEN /\ upResults' = Push(upResults, upOut)
            /\ upI' = upI + 1
            /\ upmPc' = "loop"
       ELSE /\ upmPc' = "rejected"
            /\ UNCHANGED <<upResults, upI>>
  /\ upPc' = "idle"
  /\ UNCHANGED <<upSites, upSummary>>
  /\ UNCHANGED <<upMonitor, upSite, upJ, upCall, upOut, upSeen>>
  /\ UNCHANGED <<sslVars, lvVars, mainVars>>

\* line 429
UpReturn ==
  /\ upmPc = "loop"
  /\ upI > Len(upSites)
  /\ upmPc' = "returned"
  /\ UNCHANGED <<upSites, upI, upResults, upSummary>>
  /\ UNCHANGED <<sslVars, upVars, lvVars, mainVars>>

UptimeSummarySlowUnhealthy(results) ==
  LET idx  == 1..Len(results)
      up   == Cardinality({i \in idx : results[i].overallStatus \in {"ok", "warning"}})
      down == Cardinality({i \in idx : results[i].overallStatus \in {"down", "error"}})
      slow == Cardinality({i \in idx : results[i].overallStatus \in {"warning", "critical"}})
  IN [total |-> Len(results), up |-> up, down |-> down, slow |-> slow,
      details |-> results, allHealthy |-> down = 0 /\ slow = 0]

\* UptimeMonitor.generateSummary, lines 437-451 (uptimePercentage left out)
UptimeSummary(results) ==
  LET idx  == 1..Len(results)
      up   == Cardinality({i \in idx : results[i].overallStatus \in {"ok", "warning"}})
      down == Cardinality({i \in idx : results[i].overallStatus \in {"down", "error"}})
      slow == Cardinality({i \in idx : results[i].overallStatus \in {"warning", "critical"}})
  IN [total |-> Len(results), up |-> up, down |-> down, slow |-> slow,
      details |-> results, allHealthy |-> down = 0]

UpGenerateSummary ==
  /\ upmPc = "returned"
  /\ upSummary' = UptimeSummary(upResults)
  /\ upmPc' = "done"
  /\ UNCHANGED <<upSites, upI, upResults>>
  /\ UNCHANGED <<sslVars, upVars, lvVars, mainVars>>

-----------------------------------------------------------------------------
(* LinkValidator: page content and link extraction *)

\* A page body is the sequence of its href= and src= attributes, in document
\* order.  A reference text is one of:
\*   [kind |-> "path", path |-> k]      a path on the page's own host
\*   [kind |-> "abs",  url  |-> u]      an absolute URL
\*   [kind |-> "prefix", prefix |-> p]  "#...", "javascript:...", "mailto:...",
\*                                      "tel:...", "data:...", "blob:..."
\*   [kind |-> "bad"]                   a text new URL() rejects
Ref(attr, text) == [attr |-> attr, text |-> text]

PathRef(k) == [kind |-> "path", path |-> k]
AbsRef(u) == [kind |-> "abs", url |-> u]
PrefixRef(p) == [kind |-> "prefix", prefix |-> p]
BadRef == [kind |-> "bad"]

\* href.startsWith(...) of lines 167-170 and src.startsWith(...) of line 193
HrefSkipped(text) ==
  text.kind = "prefix" /\ text.prefix \in {"#", "javascript:", "mailto:", "tel:"}
SrcSkipped(text) ==
  text.kind = "prefix" /\ text.prefix \in {"data:", "blob:"}

\* new URL(text, baseUrl): throws for a text it cannot parse
RefThrows(text, base) == text.kind = "bad"

\* new URL(text, baseUrl).toString(); a fragment is kept in the string, a
\* URL of a scheme without authority has an empty hostname
RefUrl(text, base) ==
  IF text.kind = "path" THEN Url(base.scheme, base.host, text.path)
  ELSE IF text.kind = "abs" THEN text.url
  ELSE IF text.prefix = "#"
    THEN [base EXCEPT !.hash = "#"]
  ELSE Url(text.prefix, "", 0)

\* one pass of extractLinks over the attributes named attr, lines 163-184
\* and 189-208
RECURSIVE ExtractPass(_, _, _)
ExtractPass(body, attr, base) ==
  IF body = <<>> THEN <<>>
  ELSE LET a == Head(body)
           rest == ExtractPass(Tail(body), attr, base)
           skipped == IF attr = "href" THEN HrefSkipped(a.text) ELSE SrcSkipped(a.text)
       IN IF a.attr # attr \/ skipped \/ RefThrows(a.text, base) THEN rest
          ELSE IF attr = "href"
            THEN <<[href        |-> a.text,
                    absoluteUrl |-> RefUrl(a.text, base),
                    isExternal  |-> RefUrl(a.text, base).host # base.host]>> \o rest
          ELSE <<[href        |-> a.text,
                  absoluteUrl |-> RefUrl(a.text, base),
                  isExternal  |-> RefUrl(a.text, base).host # base.host,
                  isResource  |-> TRUE]>> \o rest

\* LinkValidator.extractLinks, lines 155-211: the hrefs, then the srcs
ExtractLinks(body, base) ==
  ExtractPass(body, "href", base) \o ExtractPass(body, "src", base)

\* [...new Map(links.map(l => [l.absoluteUrl, l])).values()], line 234: one
\* entry per absoluteUrl, at the place of its first occurrence, holding its
\* last occurrence
RECURSIVE UniqueFrom(_, _)
UniqueFrom(links, i) ==
  IF i > Len(links) THEN <<>>
  ELSE IF \E j \in 1..(i - 1) : links[j].absoluteUrl = links[i].absoluteUrl
    THEN UniqueFrom(links, i + 1)
  ELSE LET last == CHOOSE j \in i..Len(links) :
                     /\ links[j].absoluteUrl = links[i].absoluteUrl
                     /\ \A k \in (j + 1)..Len(links) :
                          links[k].absoluteUrl # links[i].absoluteUrl
       IN <<links[last]>> \o UniqueFrom(links, i + 1)

UniqueLinks(links) == UniqueFrom(links, 1)

-----------------------------------------------------------------------------
(* LinkValidator: fetchPage, checkLink, validatePageLinks, validateSite,   *)
(* validateMultipleSites                                                   *)

\* the result of the error, timeout and catch handlers of fetchPage and
\* checkLink, lines 54-80 and 118-144
LinkFailed(url, message) ==
  [url |-> url, statusCode |-> 0, isOk |-> FALSE, error |-> message]

FetchEndAnyStatusOk(url, res) ==
  [url |-> url, statusCode |-> res.statusCode,
   isOk |-> res.statusCode >= 200, body |-> res.body]

\* the result of the end handler of fetchPage, lines 43-51
FetchEnd(url, res) ==
  [url |-> url, statusCode |-> res.statusCode,
   isOk |-> res.statusCode >= 200 /\ res.statusCode < 400, body |-> res.body]

HeadResponseOkBelow300(url, res) ==
  [url |-> url, statusCode |-> res.statusCode,
   isOk |-> res.statusCode >= 200 /\ res.statusCode < 300,
   isRedirect |-> res.statusCode >= 300 /\ res.statusCode < 400,
   redirectTo |-> res.location]

\* the result of the response callback of checkLink, lines 107-116
HeadResponse(url, res) ==
  [url |-> url, statusCode |-> res.statusCode,
   isOk |-> res.statusCode >= 200 /\ res.statusCode < 400,
   isRedirect |-> res.statusCode >= 300 /\ res.statusCode < 400,
   redirectTo |-> res.location]

\* the executor of the promise of fetchPage / checkLink up to req.end()
LinkCallStart(kind, url) ==
  IF UrlThrows(url)
    THEN [kind |-> kind, promise |-> Resolve(Pending, LinkFailed(url, "Invalid URL")),
          req |-> "none", url |-> url, res |-> NoValue,
          seen |-> [event |-> "invalid"]]
  ELSE [kind |-> kind, promise |-> Pending, req |-> "open", url |-> url,
        res |-> NoValue, seen |-> NoValue]

NoLinkCall == [kind |-> "none", promise |-> Pending, req |-> "none",
               url |-> InvalidUrl, res |-> NoValue, seen |-> NoValue]

\* the response callback of fetchPage, lines 40-42
LVFetchOnResponse(codes, bodies) ==
  /\ lvPc = "await"
  /\ lvCall.kind = "fetch"
  /\ lvCall.req = "open"
  /\ \E code \in codes, body \in bodies :
       lvCall' = [lvCall EXCEPT !.req = "streaming",
                                !.res = [statusCode |-> code, body |-> body]]
  /\ UNCHANGED <<lvSites, lvPc, lvI, lvJ, lvOut, lvPage, lvChecked, lvProbes,
                 lvResults, lvSummary>>
  /\ UNCHANGED <<sslVars, upVars, upmVars, lvNet, mainVars>>

\* res.on('end') of fetchPage, lines 43-51
LVFetchOnEnd ==
  /\ lvPc = "await"
  /\ lvCall.kind = "fetch"
  /\ lvCall.req = "streaming"
  /\ lvCall' = [lvCall EXCEPT !.promise = Resolve(@, FetchEnd(lvCall.url, lvCall.res)),
                              !.req = "closed",
                              !.seen = [event |-> "end",
                                        statusCode |-> lvCall.res.statusCode,
                                        body |-> lvCall.res.body]]
  /\ UNCHANGED <<lvSites, lvPc, lvI, lvJ, lvOut, lvPage, lvChecked, lvProbes,
                 lvResults, lvSummary>>
  /\ UNCHANGED <<sslVars, upVars, upmVars, lvNet, mainVars>>

\* the connection closes after the headers of a page and before its body
\* has ended: neither 'end' nor the request's 'error' follows
LVFetchOnAborted ==
  /\ lvPc = "await"
  /\ lvCall.kind = "fetch"
  /\ lvCall.req = "streaming"
  /\ lvCall' = [lvCall EXCEPT !.req = "aborted"]
  /\ UNCHANGED <<lvSites, lvPc, lvI, lvJ, lvOut, lvPage, lvChecked, lvProbes,
                 lvResults, lvSummary>>
  /\ UNCHANGED <<sslVars, upVars, upmVars, lvNet, mainVars>>

\* the response callback of checkLink, lines 107-116
LVHeadOnResponse(codes) ==
  /\ lvPc = "await"
  /\ lvCall.kind = "head"
  /\ lvCall.req = "open"
  /\ \E code \in codes :
       lvCall' = [lvCall EXCEPT
                    !.promise = Resolve(@, HeadResponse(lvCall.url,
                                     [statusCode |-> code,
                                      location |-> IF code >= 300 /\ code < 400
                                                     THEN "/moved" ELSE ""])),
                    !.req = "closed",
                    !.seen = [event |-> "response", statusCode |-> code,
                              location |-> IF code >= 300 /\ code < 400
                                             THEN "/moved" ELSE ""]]
  /\ UNCHANGED <<lvSites, lvPc, lvI, lvJ, lvOut, lvPage, lvChecked, lvProbes,
                 lvResults, lvSummary>>
  /\ UNCHANGED <<sslVars, upVars, upmVars, lvNet, mainVars>>

\* req.on('error') of fetchPage and checkLink, lines 54-61 and 118-125; also
\* delivered after req.destroy()
LVOnError(messages) ==
  /\ lvPc = "await"
  /\ lvCall.req \in {"open", "destroyed"}
  /\ \E msg \in messages :
       lvCall' = [lvCall EXCEPT !.promise = Resolve(@, LinkFailed(lvCall.url, msg)),
                                !.req = "closed",
                                !.seen = IF lvCall.req = "open"
                                           THEN [event |-> "error", message |-> msg]
                                           ELSE @]
  /\ UNCHANGED <<lvSites, lvPc, lvI, lvJ, lvOut, lvPage, lvChecked, lvProbes,
                 lvResults, lvSummary>>
  /\ UNCHANGED <<sslVars, upVars, upmVars, lvNet, mainVars>>

\* req.on('timeout') of fetchPage and checkLink, lines 63-71 and 127-135
LVOnTimeout ==
  /\ lvPc = "await"
  /\ lvCall.req \in {"open", "streaming"}
  /\ lvCall' = [lvCall EXCEPT !.promise = Resolve(@, LinkFailed(lvCall.url, "Timeout")),
                              !.req = "destroyed",
                              !.seen = [event |-> "timeout"]]
  /\ UNCHANGED <<lvSites, lvPc, lvI, lvJ, lvOut, lvPage, lvChecked, lvProbes,
                 lvResults, lvSummary>>
  /\ UNCHANGED <<sslVars, upVars, upmVars, lvNet, mainVars>>

\* `HTTP ${statusCode}`
HttpError(statusCode) == "HTTP " \o ToString(statusCode)

PageFailedAsBroken(pageUrl, pageResult) ==
  [pageUrl     |-> pageUrl,
   error       |-> IF Has(pageResult, "error") THEN pageResult.error
                   ELSE HttpError(pageResult.statusCode),
   links       |-> <<>>,
   brokenLinks |-> <<[url |-> pageUrl, foundOn |-> pageUrl,
                      statusCode |-> pageResult.statusCode]>>]

\* the page result of a page that failed to load, lines 224-231
PageFailed(pageUrl, pageResult) ==
  [pageUrl     |-> pageUrl,
   error       |-> IF Has(pageResult, "error") THEN pageResult.error
                   ELSE HttpError(pageResult.statusCode),
   links       |-> <<>>,
   brokenLinks |-> <<>>]

\* the results object of validatePageLinks, lines 238-246
PageResults(pageUrl, uniqueLinks) ==
  [pageUrl |-> pageUrl, totalLinks |-> Len(uniqueLinks), checkedLinks |-> 0,
   validLinks |-> 0, brokenLinks |-> <<>>, redirects |-> <<>>,
   skippedExternal |-> 0]

\* lines 265-282: the outcome of one checkLink entered into the results
LinkRecorded(results, link, linkResult, pageUrl) ==
  IF linkResult.isOk
    THEN [results EXCEPT
            !.validLinks = @ + 1,
            !.redirects = IF linkResult.isRedirect
                            THEN Append(@, [from |-> link.absoluteUrl,
                                            to |-> linkResult.redirectTo,
                                            statusCode |-> linkResult.statusCode])
                            ELSE @]
  ELSE [results EXCEPT
          !.brokenLinks =
             Append(@, IF Has(linkResult, "error")
                         THEN [url |-> link.absoluteUrl, foundOn |-> pageUrl,
                               href |-> link.href,
                               statusCode |-> linkResult.statusCode,
                               error |-> linkResult.error]
                         ELSE [url |-> link.absoluteUrl, foundOn |-> pageUrl,
                               href |-> link.href,
                               statusCode |-> linkResult.statusCode])]

ClearedKept(checked) == checked

\* this.checkedUrls.clear(), line 296
Cleared(checked) == {}

SkipExternalNever(link, checkExternal) == FALSE

\* link.isExternal && !checkExternal, line 255
SkipExternal(link, checkExternal) == link.isExternal /\ ~checkExternal

AlreadyCheckedNever(url, checked) == FALSE

\* this.checkedUrls.has(link.absoluteUrl), line 250
AlreadyChecked(url, checked) == url \in checked

\* the locals of a validatePageLinks(pageUrl, checkExternal) call at its
\* first await, lines 219-222
PageCall(pageUrl, checkExternal) ==
  [pageUrl |-> pageUrl, checkExternal |-> checkExternal, extracted |-> <<>>,
   links |-> <<>>, k |-> 0, results |-> NoValue, fetched |-> NoValue, checkedBefore |-> {},
   probesBefore |-> 0]

\* lines 338-341
LVValidateMultipleSites ==
  /\ lvPc = "start"
  /\ lvResults' = <<>>
  /\ lvI' = 1
  /\ lvPc' = "sites"
  /\ UNCHANGED <<lvSites, lvJ, lvOut, lvPage, lvCall, lvChecked, lvProbes, lvSummary>>
  /\ UNCHANGED <<sslVars, upVars, upmVars, lvNet, mainVars>>

\* validateSite up to its first await, lines 293-309, and validatePageLinks
\* up to its first await, lines 219-222
LVValidateSite ==
  /\ lvPc = "sites"
  /\ lvI <= Len(lvSites)
  /\ lvChecked' = Cleared(lvChecked)
  /\ lvOut' = [siteId |-> lvSites[lvI].id, siteName |-> lvSites[lvI].name,
               baseUrl |-> lvSites[lvI].url, pages |-> <<>>,
               totalBrokenLinks |-> 0, allBrokenLinks |-> <<>>]
  /\ lvJ' = 0
  /\ lvPage' = PageCall(lvSites[lvI].url, FALSE)
  /\ lvCall' = LinkCallStart("fetch", lvSites[lvI].url)
  /\ lvPc' = "await"
  /\ UNCHANGED <<lvSites, lvI, lvProbes, lvResults, lvSummary>>
  /\ UNCHANGED <<sslVars, upVars, upmVars, lvNet, mainVars>>

\* the continuation of the await of fetchPage, lines 222-246
LVFetchResume ==
  /\ lvPc = "await"
  /\ lvCall.kind = "fetch"
  /\ lvCall.promise.state = "fulfilled"
  /\ LET pageResult == lvCall.promise.value IN
       IF ~pageResult.isOk
         THEN /\ lvPage' = [lvPage EXCEPT
                                !.results = PageFailed(lvPage.pageUrl, pageResult),
                                !.fetched = lvCall.seen,
                                !.checkedBefore = lvChecked,
                                !.probesBefore = Len(lvProbes)]
              /\ lvPc' = "pageReturned"
         ELSE LET links == ExtractLinks(pageResult.body, lvPage.pageUrl)
                  uniqueLinks == UniqueLinks(links)
              IN /\ lvPage' = [lvPage EXCEPT
                                 !.extracted = links,
                                 !.links = uniqueLinks,
                                 !.k = 1,
                                 !.results = PageResults(lvPage.pageUrl, uniqueLinks),
                                 !.fetched = lvCall.seen,
                                 !.checkedBefore = lvChecked,
                                !.probesBefore = Len(lvProbes)]
                 /\ lvPc' = "links"
  /\ lvCall' = NoLinkCall
  /\ UNCHANGED <<lvSites, lvI, lvJ, lvOut, lvChecked, lvProbes, lvResults, lvSummary>>
  /\ UNCHANGED <<sslVars, upVars, upmVars, lvNet, mainVars>>

\* one iteration of the loop over uniqueLinks up to its continue or its
\* await, lines 248-263; the end of the loop, line 285
LVNextLink ==
  /\ lvPc = "links"
  /\ IF lvPage.k > Len(lvPage.links)
       THEN /\ lvPc' = "pageReturned"
            /\ UNCHANGED <<lvPage, lvChecked, lvProbes, lvCall>>
       ELSE LET link == lvPage.links[lvPage.k] IN
         IF AlreadyChecked(link.absoluteUrl, lvChecked)
           THEN /\ lvPage' = [lvPage EXCEPT !.k = @ + 1]
                /\ UNCHANGED <<lvPc, lvChecked, lvProbes, lvCall>>
         ELSE IF SkipExternal(link, lvPage.checkExternal)
           THEN /\ lvPage' = [lvPage EXCEPT !.k = @ + 1,
                                            !.results.skippedExternal = @ + 1]
                /\ UNCHANGED <<lvPc, lvChecked, lvProbes, lvCall>>
         ELSE /\ lvChecked' = lvChecked \cup {link.absoluteUrl}
              /\ lvPage' = [lvPage EXCEPT !.results.checkedLinks = @ + 1]
              /\ lvProbes' = Append(lvProbes, [site |-> lvI, page |-> lvPage.pageUrl,
                                                link |-> link, seen |-> NoValue])
              /\ lvCall' = LinkCallStart("head", link.absoluteUrl)
              /\ lvPc' = "await"
  /\ UNCHANGED <<lvSites, lvI, lvJ, lvOut, lvResults, lvSummary>>
  /\ UNCHANGED <<sslVars, upVars, upmVars, lvNet, mainVars>>

\* the continuation of the await of checkLink, lines 263-283
LVHeadResume ==
  /\ lvPc = "await"
  /\ lvCall.kind = "head"
  /\ lvCall.promise.state = "fulfilled"
  /\ lvPage' = [lvPage EXCEPT
                  !.k = @ + 1,
                  !.results = LinkRecorded(@, lvPage.links[lvPage.k],
                                           lvCall.promise.value, lvPage.pageUrl)]
  /\ lvProbes' = [lvProbes EXCEPT ![Len(lvProbes)].seen = lvCall.seen]
  /\ lvCall' = NoLinkCall
  /\ lvPc' = "links"
  /\ UNCHANGED <<lvSites, lvI, lvJ, lvOut, lvChecked, lvResults, lvSummary>>
  /\ UNCHANGED <<sslVars, upVars, upmVars, lvNet, mainVars>>

\* pageName of the sub-result, lines 310 and 321
WithPageName(result, name) ==
  [f \in DOMAIN result \cup {"pageName"} |->
     IF f = "pageName" THEN name ELSE result[f]]

\* the continuation of an await of validatePageLinks in validateSite, lines
\* 310-312 and 321-323
LVPageResume ==
  /\ lvPc = "pageReturned"
  /\ lvOut' = [lvOut EXCEPT
                 !.pages = Append(@, WithPageName(lvPage.results,
                                    IF lvJ = 0 THEN "Main"
                                    ELSE lvSites[lvI].pages[lvJ].name)),
                 !.allBrokenLinks = @ \o lvPage.results.brokenLinks]
  /\ lvPc' = "pages"
  /\ UNCHANGED <<lvSites, lvI, lvJ, lvPage, lvCall, lvChecked, lvProbes, lvResults,
                 lvSummary>>
  /\ UNCHANGED <<sslVars, upVars, upmVars, lvNet, mainVars>>

SiteLinkStatusCriticalAboveOne(totalBrokenLinks) ==
  IF totalBrokenLinks = 0 THEN "ok"
  ELSE IF totalBrokenLinks = 1 THEN "warning"
  ELSE "critical"

\* status of lines 327-328
SiteLinkStatus(totalBrokenLinks) == IF totalBrokenLinks = 0 THEN "ok" ELSE "warning"

\* one iteration of the loop over site.pages up to its continue or its
\* await, lines 315-320; after the loop, lines 327-330
LVNextPage ==
  /\ lvPc = "pages"
  /\ LET site == lvSites[lvI] IN
       IF lvJ >= Len(site.pages)
         THEN /\ lvOut' = [f \in DOMAIN lvOut \cup {"status"} |->
                             IF f = "totalBrokenLinks" THEN Len(lvOut.allBrokenLinks)
                             ELSE IF f = "status"
                               THEN SiteLinkStatus(Len(lvOut.allBrokenLinks))
                             ELSE lvOut[f]]
              /\ lvPc' = "siteReturned"
              /\ UNCHANGED <<lvJ, lvPage, lvCall>>
       ELSE IF site.pages[lvJ + 1].path = 0
         THEN \* page.path === '/'
              /\ lvJ' = lvJ + 1
              /\ UNCHANGED <<lvPc, lvOut, lvPage, lvCall>>
       ELSE IF ResolveThrows(site.pages[lvJ + 1].path, site.url)
         THEN \* new URL throws: validateSite rejects
              /\ lvPc' = "siteRejected"
              /\ UNCHANGED <<lvJ, lvOut, lvPage, lvCall>>
       ELSE /\ lvJ' = lvJ + 1
            /\ lvPage' = PageCall(ResolveUrl(site.pages[lvJ + 1].path, site.url), FALSE)
            /\ lvCall' = LinkCallStart("fetch",
                                       ResolveUrl(site.pages[lvJ + 1].path, site.url))
            /\ lvPc' = "await"
            /\ UNCHANGED lvOut
  /\ UNCHANGED <<lvSites, lvI, lvChecked, lvProbes, lvResults, lvSummary>>
  /\ UNCHANGED <<sslVars, upVars, upmVars, lvNet, mainVars>>

\* the continuation of the await of validateSite, lines 342-343; a rejection
\* of validateSite is not caught and rejects validateMultipleSites
LVSiteResume ==
  /\ lvPc \in {"siteReturned", "siteRejected"}
  /\ IF lvPc = "siteReturned"
       THEN /\ lvResults' = Push(lvResults, lvOut)
            /\ lvI' = lvI + 1
            /\ lvPc' = "sites"
       ELSE /\ lvPc' = "rejected"
            /\ UNCHANGED <<lvResults, lvI>>
  /\ UNCHANGED <<lvSites, lvJ, lvOut, lvPage, lvCall, lvChecked, lvProbes, lvSummary>>
  /\ UNCHANGED <<sslVars, upVars, upmVars, lvNet, mainVars>>

\* line 346
LVReturn ==
  /\ lvPc = "sites"
  /\ lvI > Len(lvSites)
  /\ lvPc' = "returned"
  /\ UNCHANGED <<lvSites, lvI, lvJ, lvOut, lvPage, lvCall, lvChecked, lvProbes,
                 lvResults, lvSummary>>
  /\ UNCHANGED <<sslVars, upVars, upmVars, lvNet, mainVars>>

FlatBrokenFirstSite(results) ==
  IF results = <<>> THEN <<>> ELSE Head(results).allBrokenLinks

\* results.flatMap(r => r.allBrokenLinks), line 355
RECURSIVE FlatBroken(_)
FlatBroken(results) ==
  IF results = <<>> THEN <<>>
  ELSE Head(results).allBrokenLinks \o FlatBroken(Tail(results))

\* LinkValidator.generateSummary, lines 354-365
LinksSummary(results) ==
  LET allBroken == FlatBroken(results)
  IN [totalSites           |-> Len(results),
      sitesWithBrokenLinks |-> Cardinality({i \in 1..Len(results) :
                                              results[i].totalBrokenLinks > 0}),
      totalBrokenLinks     |-> Len(allBroken),
      brokenLinks          |-> allBroken,
      allHealthy           |-> Len(allBroken) = 0,
      details              |-> results]

LVGenerateSummary ==
  /\ lvPc = "returned"
  /\ lvSummary' = LinksSummary(lvResults)
  /\ lvPc' = "done"
  /\ UNCHANGED <<lvSites, lvI, lvJ, lvOut, lvPage, lvCall, lvChecked, lvProbes,
                 lvResults>>
  /\ UNCHANGED <<sslVars, upVars, upmVars, lvNet, mainVars>>

-----------------------------------------------------------------------------
(* A run of one checker over a list of sites: checkMultipleSites or        *)
(* validateMultipleSites, then generateSummary                              *)

MaxSites == 2

\* a site that answers, without pages and with a page that is the base URL
\* again; a site whose URL cannot be parsed, without and with a page
BatchSites ==
  {Site("s1", Url("https:", "a.example", 0), Pages(0)),
   Site("s2", Url("https:", "a.example", 0), <<Page(0, "Home")>>),
   Site("s1", InvalidUrl, Pages(0)),
   Site("s2", InvalidUrl, Pages(1))}

BatchCerts == {c \in Certs : /\ c.validFrom < 0
                             /\ c.validTo \in {-1, MaxDays * MsPerDay}}

BatchBodies == {<<>>,
                <<Ref("href", PathRef(1))>>,
                <<Ref("src", AbsRef(Url("https:", "b.example", 0)))>>}

\* runSSLChecks of main, lines 78-102 of part_000
InitBatchSSL ==
  /\ UptimeOff
  /\ LinksOff
  /\ MainOff
  /\ sslChecker = SSLCheckerNew([warningDays |-> 0, criticalDays |-> 0])
  /\ sslSites \in SeqsUpTo(BatchSites, MaxSites)
  /\ sslPc = "start"
  /\ sslI = 0
  /\ sslCall = NoCall
  /\ sslResults = <<>>
  /\ sslSeen = <<>>
  /\ sslSummary = NoValue
  /\ sslRequests = 0

\* runUptimeChecks of main, lines 107-131 of part_000
InitBatchUptime ==
  /\ SSLOff
  /\ LinksOff
  /\ MainOff
  /\ upMonitor = UptimeMonitorNew([timeout |-> 0, warningThreshold |-> 0,
                                   criticalThreshold |-> 0])
  /\ upSites \in SeqsUpTo(BatchSites, MaxSites)
  /\ upmPc = "start"
  /\ upI = 0
  /\ upResults = <<>>
  /\ upSummary = NoValue
  /\ upSite = NoValue
  /\ upPc = "idle"
  /\ upJ = 0
  /\ upCall = NoProbe
  /\ upOut = NoValue
  /\ upSeen = <<>>

\* runLinkValidation of main, lines 136-157 of part_000
InitBatchLinks ==
  /\ SSLOff
  /\ UptimeOff
  /\ MainOff
  /\ lvSites \in SeqsUpTo(BatchSites, MaxSites)
  /\ lvPc = "start"
  /\ lvI = 0
  /\ lvJ = 0
  /\ lvOut = NoValue
  /\ lvPage = NoValue
  /\ lvCall = NoLinkCall
  /\ lvChecked = {}
  /\ lvProbes = <<>>
  /\ lvResults = <<>>
  /\ lvSummary = NoValue
  /\ lvNet = NoValue

InitBatch == InitBatchSSL \/ InitBatchUptime \/ InitBatchLinks

NextBatch ==
  \/ SSLCheckMultipleSites
  \/ SSLCheckCertificate
  \/ SSLOnResponse(BatchCerts)
  \/ SSLOnError
  \/ SSLOnTimeout
  \/ SSLAwaitResume
  \/ SSLReturn
  \/ SSLGenerateSummary
  \/ UpCheckMultipleSites
  \/ UpCallSite
  \/ UpCheckSitePages
  \/ UpOnResponse({200, 500}, {1})
  \/ UpOnEnd({0})
  \/ UpOnAborted
  \/ UpOnError({"connect ECONNREFUSED"}, {1})
  \/ UpOnTimeout
  \/ UpAwaitResume
  \/ UpSiteResume
  \/ UpReturn
  \/ UpGenerateSummary
  \/ LVValidateMultipleSites
  \/ LVValidateSite
  \/ LVFetchOnResponse({200, 500}, BatchBodies)
  \/ LVFetchOnEnd
  \/ LVFetchOnAborted
  \/ LVHeadOnResponse({200, 404})
  \/ LVOnError({"connect ECONNREFUSED"})
  \/ LVOnTimeout
  \/ LVFetchResume
  \/ LVNextLink
  \/ LVHeadResume
  \/ LVPageResume
  \/ LVNextPage
  \/ LVSiteResume
  \/ LVReturn
  \/ LVGenerateSummary

SpecBatch == InitBatch /\ [][NextBatch]_vars

\* the event loop runs a continuation that is ready, and the runtime
\* delivers an event of an open socket in the end: the response, an error or
\* the timeout
SpecBatchLive == SpecBatch /\ WF_vars(NextBatch)

-----------------------------------------------------------------------------
(* A crawl of one site by LinkValidator.validateSite, over pages with      *)
(* repeated, external and skipped references                               *)

External == Url("https:", "b.example", 0)

CrawlBodies ==
  {<<>>,
   <<Ref("href", PathRef(1)), Ref("href", PathRef(1))>>,
   <<Ref("href", PathRef(2)), Ref("src", PathRef(2))>>,
   <<Ref("href", PathRef(1)), Ref("href", PathRef(2))>>,
   <<Ref("href", AbsRef(External)), Ref("href", PathRef(2))>>,
   <<Ref("src", AbsRef(External)), Ref("href", PrefixRef("mailto:")),
     Ref("href", BadRef)>>}

\* a site without pages and with one page; a site whose first page is the
\* base URL again; a site whose URL cannot be parsed
CrawlSites ==
  {Site("s1", Url("https:", "a.example", 0), Pages(k)) : k \in 0..1}
    \cup {Site("s1", Url("https:", "a.example", 0), <<Page(0, "Home"), Page(1, "Page")>>),
          Site("s1", InvalidUrl, Pages(1))}

InitCrawl ==
  /\ SSLOff
  /\ UptimeOff
  /\ MainOff
  /\ \E site \in CrawlSites : lvSites = <<site>>
  /\ lvPc = "start"
  /\ lvI = 0
  /\ lvJ = 0
  /\ lvOut = NoValue
  /\ lvPage = NoValue
  /\ lvCall = NoLinkCall
  /\ lvChecked = {}
  /\ lvProbes = <<>>
  /\ lvResults = <<>>
  /\ lvSummary = NoValue
  /\ lvNet = NoValue

NextCrawl ==
  \/ LVValidateMultipleSites
  \/ LVValidateSite
  \/ LVFetchOnResponse({200, 500}, CrawlBodies)
  \/ LVFetchOnEnd
  \/ LVFetchOnAborted
  \/ LVHeadOnResponse({200, 301, 404, 500})
  \/ LVOnError({"connect ECONNREFUSED"})
  \/ LVOnTimeout
  \/ LVFetchResume
  \/ LVNextLink
  \/ LVHeadResume
  \/ LVPageResume
  \/ LVNextPage
  \/ LVSiteResume
  \/ LVReturn
  \/ LVGenerateSummary

SpecCrawl == InitCrawl /\ [][NextCrawl]_vars

-----------------------------------------------------------------------------
(* Calls of LinkValidator.validatePageLinks by a user of the class, one     *)
(* after the other on the same validator                                   *)

MaxCalls == 2

\* validatePageLinks(pageUrl, checkExternal) up to its first await, lines
\* 219-222; lvJ counts the calls
LVValidatePageLinks(pageUrls) ==
  /\ lvPc \in {"idle", "pageReturned"}
  /\ lvJ < MaxCalls
  /\ \E pageUrl \in pageUrls, checkExternal \in BOOLEAN :
       /\ lvPage' = PageCall(pageUrl, checkExternal)
       /\ lvCall' = LinkCallStart("fetch", pageUrl)
  /\ lvJ' = lvJ + 1
  /\ lvPc' = "await"
  /\ UNCHANGED <<lvSites, lvI, lvOut, lvChecked, lvProbes, lvResults, lvSummary>>
  /\ UNCHANGED <<sslVars, upVars, upmVars, lvNet, mainVars>>

PageBodies == {<<Ref("href", AbsRef(External))>>,
               <<Ref("href", PathRef(1)), Ref("src", AbsRef(External))>>}

InitPages ==
  /\ SSLOff
  /\ UptimeOff
  /\ MainOff
  /\ lvSites = <<>>
  /\ lvPc = "idle"
  /\ lvI = 0
  /\ lvJ = 0
  /\ lvOut = NoValue
  /\ lvPage = NoValue
  /\ lvCall = NoLinkCall
  /\ lvChecked = {}
  /\ lvProbes = <<>>
  /\ lvResults = <<>>
  /\ lvSummary = NoValue
  /\ lvNet = NoValue

NextPages ==
  \/ LVValidatePageLinks({Url("https:", "a.example", 0), External})
  \/ LVFetchOnResponse({200}, PageBodies)
  \/ LVFetchOnEnd
  \/ LVFetchOnAborted
  \/ LVHeadOnResponse({200, 404})
  \/ LVOnError({"connect ECONNREFUSED"})
  \/ LVOnTimeout
  \/ LVFetchResume
  \/ LVNextLink
  \/ LVHeadResume

SpecPages == InitPages /\ [][NextPages]_vars

-----------------------------------------------------------------------------
(* extractLinks applied to the body of the main page of a site without     *)
(* configured pages, all of whose requests are answered                     *)

MaxRefs == 2

\* the bodies of up to MaxRefs references, each an href or a src whose
\* text is a path, an absolute URL, an unparsable text or begins with one
\* of the prefixes
ExtractBodies ==
  LET prefixes == {"#", "javascript:", "mailto:", "tel:", "data:", "blob:"}
      texts == {PathRef(1), AbsRef(External), BadRef}
                 \cup {PrefixRef(p) : p \in prefixes}
  IN SeqsUpTo({Ref(attr, text) : attr \in {"href", "src"}, text \in texts}, MaxRefs)

InitExtract ==
  /\ SSLOff
  /\ UptimeOff
  /\ MainOff
  /\ lvSites = <<Site("s1", Url("https:", "a.example", 0), Pages(0))>>
  /\ lvPc = "start"
  /\ lvI = 0
  /\ lvJ = 0
  /\ lvOut = NoValue
  /\ lvPage = NoValue
  /\ lvCall = NoLinkCall
  /\ lvChecked = {}
  /\ lvProbes = <<>>
  /\ lvResults = <<>>
  /\ lvSummary = NoValue
  /\ lvNet = NoValue

NextExtract ==
  \/ LVValidateMultipleSites
  \/ LVValidateSite
  \/ LVFetchOnResponse({200}, ExtractBodies)
  \/ LVFetchOnEnd
  \/ LVFetchResume
  \/ LVNextLink
  \/ LVHeadOnResponse({200})
  \/ LVHeadResume
  \/ LVPageResume
  \/ LVNextPage
  \/ LVSiteResume
  \/ LVReturn
  \/ LVGenerateSummary

SpecExtract == InitExtract /\ [][NextExtract]_vars

-----------------------------------------------------------------------------
(* validateSite called twice for the same site on one validator, by        *)
(* validateMultipleSites, over a network that answers each URL the same    *)
(* way every time                                                           *)

\* the networks: what a GET of each page and a HEAD of each link is shown
Networks ==
  LET bodies == {<<>>,
                 <<Ref("href", PathRef(1))>>,
                 <<Ref("href", PathRef(2)), Ref("src", PathRef(2))>>,
                 <<Ref("href", PathRef(2)), Ref("href", PathRef(1)),
                   Ref("href", AbsRef(External))>>}
      getAnswers == {[event |-> "end", statusCode |-> 200, body |-> b] : b \in bodies}
                      \cup {[event |-> "end", statusCode |-> 500, body |-> <<>>],
                            [event |-> "error", message |-> "connect ECONNREFUSED"],
                            [event |-> "timeout"]}
      headAnswers == {[event |-> "response", statusCode |-> c] : c \in {200, 404}}
                       \cup {[event |-> "error", message |-> "connect ECONNREFUSED"],
                             [event |-> "timeout"]}
  IN [get  : [{Url("https:", "a.example", k) : k \in {0, 1}} -> getAnswers],
      head : [{Url("https:", "a.example", k) : k \in {1, 2}} -> headAnswers]]

InitTwice ==
  /\ SSLOff
  /\ UptimeOff
  /\ MainOff
  /\ \E k \in {0, 1} :
       lvSites = <<Site("s1", Url("https:", "a.example", 0), Pages(k)),
                   Site("s1", Url("https:", "a.example", 0), Pages(k))>>
  /\ lvPc = "start"
  /\ lvI = 0
  /\ lvJ = 0
  /\ lvOut = NoValue
  /\ lvPage = NoValue
  /\ lvCall = NoLinkCall
  /\ lvChecked = {}
  /\ lvProbes = <<>>
  /\ lvResults = <<>>
  /\ lvSummary = NoValue
  /\ lvNet \in Networks

\* the answer of the network to the request of the call being awaited
Answer == IF lvCall.kind = "fetch" THEN lvNet.get[lvCall.url] ELSE lvNet.head[lvCall.url]

NetFetchOnResponse ==
  /\ lvPc = "await"
  /\ lvCall.kind = "fetch"
  /\ lvCall.req = "open"
  /\ Answer.event = "end"
  /\ LVFetchOnResponse({Answer.statusCode}, {Answer.body})

NetHeadOnResponse ==
  /\ lvPc = "await"
  /\ lvCall.kind = "head"
  /\ lvCall.req = "open"
  /\ Answer.event = "response"
  /\ LVHeadOnResponse({Answer.statusCode})

NetOnError ==
  /\ lvPc = "await"
  /\ lvCall.req = "open"
  /\ Answer.event = "error"
  /\ LVOnError({Answer.message})

\* the error that follows req.destroy()
NetOnDestroyed ==
  /\ lvPc = "await"
  /\ lvCall.req = "destroyed"
  /\ LVOnError({"socket hang up"})

NetOnTimeout ==
  /\ lvPc = "await"
  /\ lvCall.req = "open"
  /\ Answer.event = "timeout"
  /\ LVOnTimeout

NextTwice ==
  \/ LVValidateMultipleSites
  \/ LVValidateSite
  \/ NetFetchOnResponse
  \/ LVFetchOnEnd
  \/ NetHeadOnResponse
  \/ NetOnError
  \/ NetOnDestroyed
  \/ NetOnTimeout
  \/ LVFetchResume
  \/ LVNextLink
  \/ LVHeadResume
  \/ LVPageResume
  \/ LVNextPage
  \/ LVSiteResume
  \/ LVReturn
  \/ LVGenerateSummary

SpecTwice == InitTwice /\ [][NextTwice]_vars

-----------------------------------------------------------------------------
(* A run of UptimeMonitor over sites without configured pages, with        *)
(* thresholds that the latencies reach                                     *)

SummarySites == {Site("s1", Url("https:", "a.example", 0), Pages(0)),
                 Site("s2", Url("https:", "a.example", 0), Pages(0)),
                 Site("s2", InvalidUrl, Pages(0))}

InitUptimeSummary ==
  /\ SSLOff
  /\ LinksOff
  /\ MainOff
  /\ upMonitor = UptimeMonitorNew([timeout |-> 0, warningThreshold |-> 1,
                                   criticalThreshold |-> 2])
  /\ upSites \in SeqsUpTo(SummarySites, MaxSites)
  /\ upmPc = "start"
  /\ upI = 0
  /\ upResults = <<>>
  /\ upSummary = NoValue
  /\ upSite = NoValue
  /\ upPc = "idle"
  /\ upJ = 0
  /\ upCall = NoProbe
  /\ upOut = NoValue
  /\ upSeen = <<>>

NextUptimeSummary ==
  \/ UpCheckMultipleSites
  \/ UpCallSite
  \/ UpCheckSitePages
  \/ UpOnResponse({200, 500}, Latencies)
  \/ UpOnEnd({0})
  \/ UpOnAborted
  \/ UpOnError({"connect ECONNREFUSED"}, {1})
  \/ UpOnTimeout
  \/ UpAwaitResume
  \/ UpSiteResume
  \/ UpReturn
  \/ UpGenerateSummary

SpecUptimeSummary == InitUptimeSummary /\ [][NextUptimeSummary]_vars

-----------------------------------------------------------------------------
(* main of part_000: the three checkers run one after the other, the       *)
(* report, the email and the exit code                                      *)

\* options, lines 22-30: the flags main reads
Options(args) ==
  [ssl       |-> "--ssl" \in args \/ "--full-report" \in args \/ args = {},
   uptime    |-> "--uptime" \in args \/ "--full-report" \in args \/ args = {},
   links     |-> "--links" \in args \/ "--full-report" \in args \/ args = {},
   sendEmail |-> "--send-email" \in args]

\* a site of config/sites.json with its checks object
WithChecks(site, ssl, uptime, links) ==
  [id |-> site.id, name |-> site.name, url |-> site.url, pages |-> site.pages,
   checks |-> [ssl |-> ssl, uptime |-> uptime, links |-> links]]

\* config/sites.json: a site with every check, a site without a checks
\* object, a site whose URL does not parse, a site without the uptime check
Configs ==
  {[settings |-> [thresholds |-> [sslExpiryWarning |-> 3, sslExpiryCritical |-> 2,
                                  responseTimeWarning |-> 1,
                                  responseTimeCritical |-> 2]],
    sites |-> sites] :
     sites \in {<<WithChecks(Site("s1", Url("https:", "a.example", 0), Pages(0)),
                             TRUE, TRUE, TRUE)>>,
                <<Site("s1", Url("https:", "a.example", 0), Pages(0))>>,
                <<WithChecks(Site("s1", InvalidUrl, Pages(1)), TRUE, TRUE, TRUE)>>,
                <<WithChecks(Site("s1", Url("https:", "a.example", 0), Pages(0)),
                             TRUE, FALSE, TRUE)>>}}

\* config.sites.filter(site => site.checks && site.checks[kind])
SitesToCheck(config, kind) ==
  LET wanted(site) == Has(site, "checks") /\ site.checks[kind]
  IN SelectSeq(config.sites, wanted)

\* the summary returned when no site is configured for a check
NoSitesSummary == [allHealthy |-> TRUE, details |-> <<>>]

\* results[kind] = summary
WithResult(results, kind, summary) ==
  [k \in DOMAIN results \cup {kind} |-> IF k = kind THEN summary ELSE results[k]]

SettledAlways(pc) == TRUE

\* the promise of checkMultipleSites / validateMultipleSites has settled
\* and the code after the await has run
Settled(pc) == pc \in {"done", "rejected"}

\* !results[kind] || results[kind].allHealthy, lines 256-258
Healthy(results, kind) ==
  ~Has(results, kind) \/ (Has(results[kind], "allHealthy") /\ results[kind].allHealthy)

\* line 259
AllHealthy(results) ==
  Healthy(results, "ssl") /\ Healthy(results, "uptime") /\ Healthy(results, "links")

\* lines 162-165 and 22-30
InitMain ==
  /\ SSLOff
  /\ UptimeOff
  /\ LinksOff
  /\ mainPc = "ssl"
  /\ \E args \in {{}, {"--ssl"}, {"--links"}, {"--uptime", "--send-email"},
                  {"--full-report", "--send-email"}, {"--send-email"}} :
       mainOptions = Options(args)
  /\ mainConfig \in Configs
  /\ mainResults = <<>>
  /\ mainEmail = NoValue
  /\ mainExit = NoValue

\* lines 178-180 and runSSLChecks up to its await, lines 78-96
MainRunSSL ==
  /\ mainPc = "ssl"
  /\ LET sitesToCheck == SitesToCheck(mainConfig, "ssl") IN
       IF ~mainOptions.ssl
         THEN /\ mainPc' = "uptime"
              /\ UNCHANGED <<mainResults, sslVars>>
       ELSE IF sitesToCheck = <<>>
         THEN /\ mainResults' = WithResult(mainResults, "ssl", NoSitesSummary)
              /\ mainPc' = "uptime"
              /\ UNCHANGED sslVars
       ELSE /\ sslChecker' = SSLCheckerNew(
                               [warningDays  |-> mainConfig.settings.thresholds.sslExpiryWarning,
                                criticalDays |-> mainConfig.settings.thresholds.sslExpiryCritical])
            /\ sslSites' = sitesToCheck
            /\ sslPc' = "start"
            /\ sslI' = 0
            /\ sslCall' = NoCall
            /\ sslResults' = <<>>
            /\ sslSeen' = <<>>
            /\ sslSummary' = NoValue
            /\ sslRequests' = 0
            /\ mainPc' = "sslAwait"
            /\ UNCHANGED mainResults
  /\ UNCHANGED <<mainOptions, mainConfig, mainEmail, mainExit>>
  /\ UNCHANGED <<upVars, upmVars, lvVars>>

\* the continuation of await runSSLChecks(config), line 179; a rejection
\* reaches main().catch, lines 273-276
MainSSLResume ==
  /\ mainPc = "sslAwait"
  /\ Settled(sslPc)
  /\ IF sslPc = "rejected"
       THEN /\ mainExit' = [code |-> 1, from |-> "catch"]
            /\ mainPc' = "exited"
            /\ UNCHANGED mainResults
       ELSE /\ mainResults' = WithResult(mainResults, "ssl", sslSummary)
            /\ mainPc' = "uptime"
            /\ UNCHANGED mainExit
  /\ UNCHANGED <<mainOptions, mainConfig, mainEmail>>
  /\ UNCHANGED <<sslVars, upVars, upmVars, lvVars>>

\* lines 182-184 and runUptimeChecks up to its await, lines 107-125
MainRunUptime ==
  /\ mainPc = "uptime"
  /\ LET sitesToCheck == SitesToCheck(mainConfig, "uptime") IN
       IF ~mainOptions.uptime
         THEN /\ mainPc' = "links"
              /\ UNCHANGED <<mainResults, upVars, upmVars>>
       ELSE IF sitesToCheck = <<>>
         THEN /\ mainResults' = WithResult(mainResults, "uptime", NoSitesSummary)
              /\ mainPc' = "links"
              /\ UNCHANGED <<upVars, upmVars>>
       ELSE /\ upMonitor' = UptimeMonitorNew(
                 [timeout           |-> 0,
                  warningThreshold  |-> mainConfig.settings.thresholds.responseTimeWarning,
                  criticalThreshold |-> mainConfig.settings.thresholds.responseTimeCritical])
            /\ upSites' = sitesToCheck
            /\ upmPc' = "start"
            /\ upI' = 0
            /\ upResults' = <<>>
            /\ upSummary' = NoValue
            /\ upSite' = NoValue
            /\ upPc' = "idle"
            /\ upJ' = 0
            /\ upCall' = NoProbe
            /\ upOut' = NoValue
            /\ upSeen' = <<>>
            /\ mainPc' = "uptimeAwait"
            /\ UNCHANGED mainResults
  /\ UNCHANGED <<mainOptions, mainConfig, mainEmail, mainExit>>
  /\ UNCHANGED <<sslVars, lvVars>>

\* the continuation of await runUptimeChecks(config), line 183
MainUptimeResume ==
  /\ mainPc = "uptimeAwait"
  /\ Settled(upmPc)
  /\ IF upmPc = "rejected"
       THEN /\ mainExit' = [code |-> 1, from |-> "catch"]
            /\ mainPc' = "exited"
            /\ UNCHANGED mainResults
       ELSE /\ mainResults' = WithResult(mainResults, "uptime", upSummary)
            /\ mainPc' = "links"
            /\ UNCHANGED mainExit
  /\ UNCHANGED <<mainOptions, mainConfig, mainEmail>>
  /\ UNCHANGED <<sslVars, upVars, upmVars, lvVars>>

\* lines 186-188 and runLinkValidation up to its await, lines 136-151
MainRunLinks ==
  /\ mainPc = "links"
  /\ LET sitesToCheck == SitesToCheck(mainConfig, "links") IN
       IF ~mainOptions.links
         THEN /\ mainPc' = "report"
              /\ UNCHANGED <<mainResults, lvVars>>
       ELSE IF sitesToCheck = <<>>
         THEN /\ mainResults' = WithResult(mainResults, "links", NoSitesSummary)
              /\ mainPc' = "report"
              /\ UNCHANGED lvVars
       ELSE /\ lvSites' = sitesToCheck
            /\ lvPc' = "start"
            /\ lvI' = 0
            /\ lvJ' = 0
            /\ lvOut' = NoValue
            /\ lvPage' = NoValue
            /\ lvCall' = NoLinkCall
            /\ lvChecked' = {}
            /\ lvProbes' = <<>>
            /\ lvResults' = <<>>
            /\ lvSummary' = NoValue
            /\ mainPc' = "linksAwait"
            /\ UNCHANGED <<mainResults, lvNet>>
  /\ UNCHANGED <<mainOptions, mainConfig, mainEmail, mainExit>>
  /\ UNCHANGED <<sslVars, upVars, upmVars>>

\* the continuation of await runLinkValidation(config), line 187
MainLinksResume ==
  /\ mainPc = "linksAwait"
  /\ Settled(lvPc)
  /\ IF lvPc = "rejected"
       THEN /\ mainExit' = [code |-> 1, from |-> "catch"]
            /\ mainPc' = "exited"
            /\ UNCHANGED mainResults
       ELSE /\ mainResults' = WithResult(mainResults, "links", lvSummary)
            /\ mainPc' = "report"
            /\ UNCHANGED mainExit
  /\ UNCHANGED <<mainOptions, mainConfig, mainEmail>>
  /\ UNCHANGED <<sslVars, upVars, upmVars, lvVars>>

\* the report is generated, saved and printed, lines 190-225
MainReport ==
  /\ mainPc = "report"
  /\ mainPc' = IF mainOptions.sendEmail THEN "email" ELSE "final"
  /\ UNCHANGED <<mainOptions, mainConfig, mainResults, mainEmail, mainExit>>
  /\ UNCHANGED <<sslVars, upVars, upmVars, lvVars>>

\* lines 228-246: sendMorningReport resolves with success true or false
\* and never rejects (email-sender.js lines 45-68)
MainSendEmail ==
  /\ mainPc = "email"
  /\ \E success \in BOOLEAN : mainEmail' = [success |-> success]
  /\ mainPc' = "final"
  /\ UNCHANGED <<mainOptions, mainConfig, mainResults, mainExit>>
  /\ UNCHANGED <<sslVars, upVars, upmVars, lvVars>>

\* lines 255-269
MainExit ==
  /\ mainPc = "final"
  /\ mainExit' = [code |-> IF AllHealthy(mainResults) THEN 0 ELSE 1, from |-> "main"]
  /\ mainPc' = "exited"
  /\ UNCHANGED <<mainOptions, mainConfig, mainResults, mainEmail>>
  /\ UNCHANGED <<sslVars, upVars, upmVars, lvVars>>

\* the promise main is awaiting can no longer settle and nothing is left on
\* the event loop: the process ends by itself, with code 0, and neither
\* process.exit of main nor the catch of lines 273-276 runs
MainEventLoopEmpty ==
  /\ \/ mainPc = "uptimeAwait" /\ upPc = "await" /\ upCall.req = "aborted"
     \/ mainPc = "linksAwait" /\ lvPc = "await" /\ lvCall.req = "aborted"
  /\ mainExit' = [code |-> 0, from |-> "loop"]
  /\ mainPc' = "exited"
  /\ UNCHANGED <<mainOptions, mainConfig, mainResults, mainEmail>>
  /\ UNCHANGED <<sslVars, upVars, upmVars, lvVars>>

NextMain ==
  \/ MainRunSSL
  \/ MainSSLResume
  \/ MainRunUptime
  \/ MainUptimeResume
  \/ MainRunLinks
  \/ MainLinksResume
  \/ MainReport
  \/ MainSendEmail
  \/ MainExit
  \/ MainEventLoopEmpty
  \/ SSLCheckMultipleSites
  \/ SSLCheckCertificate
  \/ SSLOnResponse(BatchCerts)
  \/ SSLOnError
  \/ SSLOnTimeout
  \/ SSLAwaitResume
  \/ SSLReturn
  \/ SSLGenerateSummary
  \/ UpCheckMultipleSites
  \/ UpCallSite
  \/ UpCheckSitePages
  \/ UpOnResponse({200, 500}, {1})
  \/ UpOnEnd({0})
  \/ UpOnAborted
  \/ UpOnError({"connect ECONNREFUSED"}, {1})
  \/ UpOnTimeout
  \/ UpAwaitResume
  \/ UpSiteResume
  \/ UpReturn
  \/ UpGenerateSummary
  \/ LVValidateMultipleSites
  \/ LVValidateSite
  \/ LVFetchOnResponse({200, 500}, BatchBodies)
  \/ LVFetchOnEnd
  \/ LVFetchOnAborted
  \/ LVHeadOnResponse({200, 404})
  \/ LVOnError({"connect ECONNREFUSED"})
  \/ LVOnTimeout
  \/ LVFetchResume
  \/ LVNextLink
  \/ LVHeadResume
  \/ LVPageResume
  \/ LVNextPage
  \/ LVSiteResume
  \/ LVReturn
  \/ LVGenerateSummary

SpecMain == InitMain /\ [][NextMain]_vars

-----------------------------------------------------------------------------
(* Properties of the three checkers' runs over a list of sites, checked     *)
(* under SpecBatch                                                          *)

\* C5: no exception crosses a checker's public boundary: for every list of
\* sites, a site with an unparsable base URL and configured pages included,
\* none of SSLChecker.checkMultipleSites, UptimeMonitor.checkMultipleSites
\* and LinkValidator.validateMultipleSites rejects
C5_NoCheckerRejects ==
  /\ sslPc # "rejected"
  /\ upmPc # "rejected"
  /\ lvPc # "rejected"

\* the entries gathered so far are those of the first sites, in their order
FollowsSites(results, sites) ==
  /\ Len(results) <= Len(sites)
  /\ \A i \in 1..Len(results) :
       /\ results[i].siteId = sites[i].id
       /\ results[i].siteName = sites[i].name

\* C6: for each of the three checkers, the result list has exactly one entry
\* per input site, its i-th entry carries the id and the name of the i-th
\* input site, and the details of the summary are that list in that order
C6_ResultsFollowSites ==
  /\ FollowsSites(sslResults, sslSites)
  /\ FollowsSites(upResults, upSites)
  /\ FollowsSites(lvResults, lvSites)
  /\ sslPc \in {"returned", "done"} => Len(sslResults) = Len(sslSites)
  /\ upmPc \in {"returned", "done"} => Len(upResults) = Len(upSites)
  /\ lvPc \in {"returned", "done"} => Len(lvResults) = Len(lvSites)
  /\ sslPc = "done" => sslSummary.details = sslResults
  /\ upmPc = "done" => upSummary.details = upResults
  /\ lvPc = "done" => lvSummary.details = lvResults

\* two sites of different ids and different outcomes, summarised
C6_Witness ==
  /\ upmPc = "done"
  /\ Len(upSites) = 2
  /\ upSites[1].id # upSites[2].id
  /\ upResults[1].overallStatus = "down"
  /\ upResults[2].overallStatus = "ok"
  /\ upSummary.details = upResults
  /\ upSummary.total = 2

-----------------------------------------------------------------------------
(* The latency of a probe, checked under SpecTransfer *)

C11_LatencyAtHeaders ==
  \A k \in Requested :
    LET r == upOut.pages[k]
        e == upSeen[k]
    IN e.event = "end" => r.responseTime = e.latency

-----------------------------------------------------------------------------
(* Properties of the summaries *)

\* C12: the availability summary's allHealthy is true if and only if no
\* site's overallStatus is down or error; a site that is warning or critical
\* never makes it false
C12_UptimeHealthyIffNoneDown ==
  upmPc = "done" =>
    (upSummary.allHealthy <=>
       \A i \in 1..Len(upResults) : upResults[i].overallStatus \notin {"down", "error"})

\* a summary that is healthy although a site is critical and another warning
C12_Witness ==
  /\ upmPc = "done"
  /\ Len(upResults) = 2
  /\ upResults[1].overallStatus = "critical"
  /\ upResults[2].overallStatus = "warning"
  /\ upSummary.allHealthy
  /\ upSummary.slow = 2

\* C13: the certificate summary's allHealthy is true if and only if no
\* result has status critical or error and no result has valid = false; a
\* result with status warning alone never makes it false
C13_CertHealthyRule ==
  sslPc = "done" =>
    (sslSummary.allHealthy <=>
       \A i \in 1..Len(sslResults) :
         /\ sslResults[i].status \notin {"critical", "error"}
         /\ sslResults[i].valid)

\* a summary that is healthy although its certificate is close to expiry
C13_Witness ==
  /\ sslPc = "done"
  /\ Len(sslResults) = 1
  /\ sslResults[1].status = "warning"
  /\ sslResults[1].valid
  /\ sslSummary.expiringSoon = 1
  /\ sslSummary.allHealthy

RECURSIVE SumBroken(_)
SumBroken(results) ==
  IF results = <<>> THEN 0
  ELSE Head(results).totalBrokenLinks + SumBroken(Tail(results))

RECURSIVE CountBrokenEntries(_)
CountBrokenEntries(results) ==
  IF results = <<>> THEN 0
  ELSE Len(Head(results).allBrokenLinks) + CountBrokenEntries(Tail(results))

\* C14: the links summary's allHealthy is true if and only if the number of
\* broken-link entries over all sites is zero, and its totalBrokenLinks is
\* the sum of the sites' totalBrokenLinks
C14_LinksHealthyRule ==
  lvPc = "done" =>
    /\ lvSummary.allHealthy <=> (CountBrokenEntries(lvResults) = 0)
    /\ lvSummary.totalBrokenLinks = SumBroken(lvResults)

\* a healthy first site, a second site with a broken link
C14_Witness ==
  /\ lvPc = "done"
  /\ Len(lvResults) = 2
  /\ lvResults[1].totalBrokenLinks = 0
  /\ lvResults[2].totalBrokenLinks = 1
  /\ lvSummary.totalBrokenLinks = 1
  /\ ~lvSummary.allHealthy

-----------------------------------------------------------------------------
(* Properties of a crawl, checked under SpecCrawl *)

\* the checkLink calls of the crawl whose outcome is a failure
FailedProbes ==
  {i \in 1..Len(lvProbes) :
     /\ lvProbes[i].seen # NoValue
     /\ \/ lvProbes[i].seen.event \in {"error", "timeout", "invalid"}
        \/ /\ lvProbes[i].seen.event = "response"
           /\ (lvProbes[i].seen.statusCode < 200 \/ lvProbes[i].seen.statusCode >= 400)}

\* C15: within one validateSite crawl every absolute URL is probed at most
\* once, on one page or on several, and a broken URL has exactly one entry
\* in allBrokenLinks
C15_ProbedAtMostOnce ==
  /\ \A i, j \in 1..Len(lvProbes) :
       (i # j /\ lvProbes[i].site = lvProbes[j].site) =>
         lvProbes[i].link.absoluteUrl # lvProbes[j].link.absoluteUrl
  /\ lvPc = "siteReturned" =>
       /\ \A i \in FailedProbes :
            Cardinality({e \in 1..Len(lvOut.allBrokenLinks) :
                           lvOut.allBrokenLinks[e].url = lvProbes[i].link.absoluteUrl}) = 1
       /\ Len(lvOut.allBrokenLinks) = Cardinality(FailedProbes)

\* a URL that is twice on the main page and again on the second page, broken:
\* one probe, one entry
C15_Witness ==
  /\ lvPc = "siteReturned"
  /\ Len(lvOut.pages) = 2
  /\ Has(lvOut.pages[1], "totalLinks")
  /\ Has(lvOut.pages[2], "totalLinks")
  /\ lvOut.pages[1].totalLinks = 1
  /\ lvOut.pages[1].checkedLinks = 1
  /\ Len(lvOut.pages[1].brokenLinks) = 1
  /\ lvOut.pages[2].totalLinks = 2
  /\ lvOut.pages[2].checkedLinks = 1
  /\ lvOut.pages[2].validLinks = 1
  /\ Len(lvProbes) = 2
  /\ lvProbes[1].link.absoluteUrl = Url("https:", "a.example", 1)
  /\ Len(lvOut.allBrokenLinks) = 1

-----------------------------------------------------------------------------
(* Properties of the checked-URL set over several sites, checked under     *)
(* SpecBatch                                                               *)

\* the URLs handed to checkLink in the crawl of the n-th site
ProbedFor(n) ==
  {lvProbes[i].link.absoluteUrl : i \in {j \in 1..Len(lvProbes) : lvProbes[j].site = n}}

\* validateSite(sites[lvI]) has been called and has not returned to its caller
InCrawl == lvPc \in {"await", "links", "pageReturned", "pages", "siteReturned",
                     "siteRejected"}

\* C16: the checked-URL set is scoped to one site crawl: it is empty at the
\* start of every validateSite call, it only contains URLs probed in the
\* current site's crawl, and a URL probed for an earlier site is probed and
\* reported again when it is in scope on a later site
C16_CheckedScopedToSite ==
  /\ (lvPc = "await" /\ lvJ = 0 /\ lvCall.kind = "fetch") => lvChecked = {}
  /\ InCrawl => lvChecked \subseteq ProbedFor(lvI)
  /\ (lvPc = "pageReturned" /\ Has(lvPage.results, "totalLinks")) =>
       \A k \in 1..Len(lvPage.links) :
         ~lvPage.links[k].isExternal =>
           \E i \in 1..Len(lvProbes) :
             /\ lvProbes[i].site = lvI
             /\ lvProbes[i].link.absoluteUrl = lvPage.links[k].absoluteUrl
             /\ (i \in FailedProbes /\ lvProbes[i].page = lvPage.pageUrl) =>
                  \E e \in 1..Len(lvPage.results.brokenLinks) :
                    lvPage.results.brokenLinks[e].url = lvPage.links[k].absoluteUrl

\* the same broken URL probed and reported for the first and the second site
C16_Witness ==
  /\ lvPc = "pageReturned"
  /\ lvI = 2
  /\ Len(lvProbes) = 2
  /\ lvProbes[1].site = 1
  /\ lvProbes[2].site = 2
  /\ lvProbes[1].link.absoluteUrl = lvProbes[2].link.absoluteUrl
  /\ FailedProbes = {1, 2}
  /\ lvResults[1].totalBrokenLinks = 1
  /\ Has(lvPage.results, "totalLinks")
  /\ Len(lvPage.results.brokenLinks) = 1

-----------------------------------------------------------------------------
(* Properties of the crawl scope, checked under SpecCrawl *)

\* C17: when external checking is not enabled, no link probe goes to a URL
\* whose host differs from the host of the site being crawled
C17_NoExternalProbe ==
  \A i \in 1..Len(lvProbes) :
    lvProbes[i].link.absoluteUrl.host = lvSites[lvProbes[i].site].url.host

\* a page with an external and an internal reference: one skipped, one probed
C17_Witness ==
  /\ lvPc = "pageReturned"
  /\ Has(lvPage.results, "totalLinks")
  /\ ~lvPage.checkExternal
  /\ \E k \in 1..Len(lvPage.links) : lvPage.links[k].absoluteUrl = External
  /\ lvPage.results.totalLinks = 2
  /\ lvPage.results.skippedExternal = 1
  /\ lvPage.results.checkedLinks = 1
  /\ Len(lvProbes) = 1

-----------------------------------------------------------------------------
(* Properties of validatePageLinks calls *)

\* the distinct external absolute URLs found on the page being scanned
ExternalFound == {lvPage.links[k].absoluteUrl :
                    k \in {n \in 1..Len(lvPage.links) : lvPage.links[n].isExternal}}

\* C18: for every validatePageLinks call with external checking disabled,
\* after any earlier calls on the same validator, skippedExternal is the
\* number of distinct external absolute URLs found on the page
C18_SkippedCountsExternal ==
  (lvPc = "pageReturned" /\ Has(lvPage.results, "totalLinks") /\ ~lvPage.checkExternal) =>
    lvPage.results.skippedExternal = Cardinality(ExternalFound)

\* what the code counts: the external URLs that no earlier call has probed
C18_SkippedCountsUnchecked ==
  (lvPc = "pageReturned" /\ Has(lvPage.results, "totalLinks") /\ ~lvPage.checkExternal) =>
    lvPage.results.skippedExternal = Cardinality(ExternalFound \ lvPage.checkedBefore)

\* the checkLink calls made for the page being scanned that have been
\* entered into its results
Recorded ==
  IF lvPc \in {"links", "await", "pageReturned"} /\ Has(lvPage.results, "totalLinks")
    THEN {i \in 1..Len(lvProbes) :
            /\ lvProbes[i].site = lvI
            /\ lvProbes[i].page = lvPage.pageUrl
            /\ lvProbes[i].seen # NoValue}
  ELSE {}

\* the entries of a list of the page's results that are about probe i
EntriesFor(list, field, i) ==
  {e \in 1..Len(list) : list[e][field] = lvProbes[i].link.absoluteUrl}

\* C19: a probed link with a status in [200,400) counts as valid and is not
\* listed as broken; a 3xx is also recorded in redirects with its target;
\* every other outcome (4xx, 5xx, network error, timeout) gives exactly one
\* BrokenLinkEntry with foundOn the page being scanned, href the reference
\* text and statusCode / error the observed failure
C19_LinkOutcomeRecorded ==
  /\ \A i \in Recorded :
       LET seen     == lvProbes[i].seen
           results  == lvPage.results
           broken   == EntriesFor(results.brokenLinks, "url", i)
           redirect == EntriesFor(results.redirects, "from", i)
       IN IF i \notin FailedProbes
            THEN /\ broken = {}
                 /\ IF seen.statusCode >= 300
                      THEN /\ Cardinality(redirect) = 1
                           /\ \A e \in redirect :
                                /\ results.redirects[e].to = seen.location
                                /\ results.redirects[e].statusCode = seen.statusCode
                      ELSE redirect = {}
          ELSE /\ redirect = {}
               /\ Cardinality(broken) = 1
               /\ \A e \in broken :
                    LET entry == results.brokenLinks[e]
                    IN /\ entry.foundOn = lvPage.pageUrl
                       /\ entry.href = lvProbes[i].link.href
                       /\ IF seen.event = "response"
                            THEN entry.statusCode = seen.statusCode /\ ~Has(entry, "error")
                          ELSE IF seen.event = "error"
                            THEN entry.statusCode = 0 /\ entry.error = seen.message
                          ELSE entry.statusCode = 0 /\ entry.error = "Timeout"
  /\ Recorded # {} =>
       lvPage.results.validLinks = Cardinality(Recorded \ FailedProbes)

\* a page with a redirected link and a link that answers 404
C19_Witness ==
  /\ lvPc = "pageReturned"
  /\ Cardinality(Recorded) = 2
  /\ \E i, j \in Recorded :
       /\ lvProbes[i].seen.event = "response" /\ lvProbes[i].seen.statusCode = 301
       /\ lvProbes[j].seen.event = "response" /\ lvProbes[j].seen.statusCode = 404
  /\ lvPage.results.validLinks = 1
  /\ Len(lvPage.results.redirects) = 1
  /\ Len(lvPage.results.brokenLinks) = 1
  /\ lvPage.results.brokenLinks[1].statusCode = 404

\* the fetch of the page being scanned has failed: network error, timeout,
\* unparsable URL, or a status outside [200,400)
FetchFailed ==
  /\ lvPc = "pageReturned"
  /\ \/ lvPage.fetched.event \in {"error", "timeout", "invalid"}
     \/ /\ lvPage.fetched.event = "end"
        /\ (lvPage.fetched.statusCode < 200 \/ lvPage.fetched.statusCode >= 400)

\* C20: when the fetch of a page fails, validatePageLinks issues no link
\* probe, leaves the checked-URL set unchanged and returns a page result
\* with an error and empty links and brokenLinks lists
C20_FailedPageNoProbes ==
  FetchFailed =>
    /\ Len(lvProbes) = lvPage.probesBefore
    /\ lvChecked = lvPage.checkedBefore
    /\ Has(lvPage.results, "error")
    /\ lvPage.results.error =
         (IF lvPage.fetched.event = "end" THEN HttpError(lvPage.fetched.statusCode)
          ELSE IF lvPage.fetched.event = "error" THEN lvPage.fetched.message
          ELSE IF lvPage.fetched.event = "timeout" THEN "Timeout"
          ELSE "Invalid URL")
    /\ lvPage.results.links = <<>>
    /\ lvPage.results.brokenLinks = <<>>

\* the second page of a site answers 500 after links of the first were probed
C20_Witness ==
  /\ FetchFailed
  /\ lvJ = 1
  /\ lvPage.fetched.event = "end"
  /\ lvPage.fetched.statusCode = 500
  /\ lvPage.results.error = "HTTP 500"
  /\ Cardinality(lvChecked) = 2
  /\ Len(lvProbes) = 2

-----------------------------------------------------------------------------
(* Properties of the result of validateSite, checked under SpecCrawl *)

\* the brokenLinks of the pages, one after the other in page order
RECURSIVE ConcatBroken(_)
ConcatBroken(pages) ==
  IF pages = <<>> THEN <<>>
  ELSE Head(pages).brokenLinks \o ConcatBroken(Tail(pages))

\* C21: validateSite's status is ok exactly when allBrokenLinks is empty and
\* warning otherwise, never critical, down or error; totalBrokenLinks is the
\* length of allBrokenLinks, which is the concatenation of the pages'
\* brokenLinks in page order
C21_SiteStatusFromBrokenLinks ==
  lvPc = "siteReturned" =>
    /\ lvOut.status = (IF lvOut.allBrokenLinks = <<>> THEN "ok" ELSE "warning")
    /\ lvOut.totalBrokenLinks = Len(lvOut.allBrokenLinks)
    /\ lvOut.allBrokenLinks = ConcatBroken(lvOut.pages)

\* a site with a broken link on each of its two pages
C21_Witness ==
  /\ lvPc = "siteReturned"
  /\ Len(lvOut.pages) = 2
  /\ Len(lvOut.pages[1].brokenLinks) = 1
  /\ Len(lvOut.pages[2].brokenLinks) = 1
  /\ lvOut.totalBrokenLinks = 2
  /\ lvOut.status = "warning"

\* validateSite(sites[lvI]) has returned or thrown
SiteEnded == lvPc \in {"siteReturned", "siteRejected"}

\* the configured pages of a site that validateSite does not pass over
RECURSIVE NotBase(_)
NotBase(pages) ==
  IF pages = <<>> THEN <<>>
  ELSE IF Head(pages).path = 0 THEN NotBase(Tail(pages))
  ELSE <<Head(pages)>> \o NotBase(Tail(pages))

\* C22: validateSite crawls the main page and every configured page: pages
\* holds one sub-result for the main page, then one for each configured page
\* in order, and a page that fails to load does not stop the crawl
C22_EveryPageCrawled ==
  SiteEnded =>
    LET site == lvSites[lvI] IN
      /\ Len(lvOut.pages) = 1 + Len(site.pages)
      /\ lvOut.pages[1].pageName = "Main"
      /\ \A j \in 1..Len(site.pages) : lvOut.pages[j + 1].pageName = site.pages[j].name

\* what holds: for a site whose URL can be parsed, the main page and every
\* configured page other than "/" have a sub-result, in order, whether the
\* pages before them loaded or not
C22_PagesOtherThanBase ==
  (SiteEnded /\ ~UrlThrows(lvSites[lvI].url)) =>
    LET pages == NotBase(lvSites[lvI].pages) IN
      /\ lvPc = "siteReturned"
      /\ Len(lvOut.pages) = 1 + Len(pages)
      /\ lvOut.pages[1].pageName = "Main"
      /\ lvOut.pages[1].pageUrl = lvSites[lvI].url
      /\ \A j \in 1..Len(pages) :
           /\ lvOut.pages[j + 1].pageName = pages[j].name
           /\ lvOut.pages[j + 1].pageUrl = ResolveUrl(pages[j].path, lvSites[lvI].url)

-----------------------------------------------------------------------------
(* Properties of extractLinks, checked under SpecExtract *)

\* extractLinks has been applied to the body of the page being scanned
Extracted ==
  /\ lvPc \in {"links", "await", "pageReturned"}
  /\ Has(lvPage.results, "totalLinks")

\* C23: extractLinks returns no entry for an href or src reference that
\* begins with # or with javascript:, mailto:, tel:, data: or blob:,
\* whichever attribute it is in; every other parsable reference is returned
\* resolved against the page's URL
C23_PrefixesExcluded ==
  Extracted =>
    LET body == lvPage.fetched.body IN
      \A n \in 1..Len(body) :
        IF body[n].text.kind = "prefix"
          THEN \A e \in 1..Len(lvPage.extracted) : lvPage.extracted[e].href # body[n].text
        ELSE IF body[n].text.kind = "bad" THEN TRUE
        ELSE \E e \in 1..Len(lvPage.extracted) :
               /\ lvPage.extracted[e].href = body[n].text
               /\ lvPage.extracted[e].absoluteUrl = RefUrl(body[n].text, lvPage.pageUrl)

\* what holds: an href is left out for #, javascript:, mailto: and tel: only,
\* a src for data: and blob: only; every other parsable reference is
\* returned, those prefixes in the other attribute included
C23_FiltersPerAttribute ==
  Extracted =>
    LET body == lvPage.fetched.body
        returned(n) == \E e \in 1..Len(lvPage.extracted) :
                         /\ lvPage.extracted[e].href = body[n].text
                         /\ Has(lvPage.extracted[e], "isResource") = (body[n].attr = "src")
                         /\ lvPage.extracted[e].absoluteUrl =
                              RefUrl(body[n].text, lvPage.pageUrl)
    IN \A n \in 1..Len(body) :
         IF body[n].text.kind = "bad" THEN ~returned(n)
         ELSE IF body[n].attr = "href"
           THEN returned(n) <=>
                  ~(body[n].text.kind = "prefix" /\
                    body[n].text.prefix \in {"#", "javascript:", "mailto:", "tel:"})
         ELSE returned(n) <=>
                ~(body[n].text.kind = "prefix" /\ body[n].text.prefix \in {"data:", "blob:"})

-----------------------------------------------------------------------------
(* The counts of the availability summary, checked under SpecUptimeSummary *)

\* C30: in every availability summary each site is counted as exactly one
\* of up or down: up + down = total, and allHealthy is true exactly when
\* up = total
C30_UpPlusDownIsTotal ==
  upmPc = "done" =>
    /\ upSummary.up + upSummary.down = upSummary.total
    /\ upSummary.allHealthy <=> (upSummary.up = upSummary.total)

\* what holds: the sites that are neither up nor down are the critical ones,
\* and allHealthy is true exactly when up and critical sites make the total
C30_CriticalInNeither ==
  upmPc = "done" =>
    LET critical == Cardinality({i \in 1..Len(upResults) :
                                   upResults[i].overallStatus = "critical"})
    IN /\ upSummary.up + upSummary.down + critical = upSummary.total
       /\ upSummary.allHealthy <=> (upSummary.up + critical = upSummary.total)

-----------------------------------------------------------------------------
(* Pages that failed to load and link health, checked under SpecCrawl *)

\* every page of a site result failed to load
AllPagesFailed(result) ==
  \A j \in 1..Len(result.pages) : Has(result.pages[j], "error")

\* C29: a page that failed to load never influences link health: it
\* contributes no broken-link entry, so a site all of whose pages failed has
\* status ok and totalBrokenLinks 0 and leaves the summary's allHealthy true
C29_FailedPagesStayHealthy ==
  /\ lvPc = "siteReturned" =>
       /\ \A j \in 1..Len(lvOut.pages) :
            Has(lvOut.pages[j], "error") => lvOut.pages[j].brokenLinks = <<>>
       /\ AllPagesFailed(lvOut) => (lvOut.status = "ok" /\ lvOut.totalBrokenLinks = 0)
  /\ lvPc = "done" =>
       ((\A i \in 1..Len(lvResults) : AllPagesFailed(lvResults[i])) =>
          (lvSummary.allHealthy /\ lvSummary.totalBrokenLinks = 0))

\* the summary of a site whose main page and configured page both failed
C29_Witness ==
  /\ lvPc = "done"
  /\ Len(lvResults) = 1
  /\ Len(lvResults[1].pages) = 2
  /\ AllPagesFailed(lvResults[1])
  /\ lvResults[1].status = "ok"
  /\ lvSummary.allHealthy

-----------------------------------------------------------------------------
(* Two runs of validateSite over the same network, checked under SpecTwice *)

\* C27: validateSite run twice on the same validator for an unchanged site
\* over unchanged network answers yields the same allBrokenLinks list both
\* times, entry for entry
C27_SecondRunSameBrokenLinks ==
  /\ (lvPc = "siteReturned" /\ lvI = 2) =>
       lvOut.allBrokenLinks = lvResults[1].allBrokenLinks
  /\ Len(lvResults) = 2 => lvResults[2].allBrokenLinks = lvResults[1].allBrokenLinks

\* two runs that each found the same broken link on the main page and
\* another on the configured page
C27_Witness ==
  /\ lvPc = "done"
  /\ Len(lvResults) = 2
  /\ Len(lvResults[1].pages) = 2
  /\ Len(lvResults[1].pages[1].brokenLinks) = 1
  /\ Len(lvResults[1].pages[2].brokenLinks) = 1
  /\ lvResults[2].allBrokenLinks = lvResults[1].allBrokenLinks

-----------------------------------------------------------------------------
(* Timeouts, checked under SpecBatch *)

\* the call was shown a timeout
TimedOut(seen) == Has(seen, "event") /\ seen.event = "timeout"

-----------------------------------------------------------------------------
(* Termination of the calls, checked under SpecBatchLive *)

\* a checkSite or fetchPage call whose promise is not settled
CallPending ==
  \/ upPc = "await" /\ upCall.promise.state = "pending"
  \/ lvPc = "await" /\ lvCall.kind = "fetch" /\ lvCall.promise.state = "pending"

\* the response of the call was cut after its headers
CallAborted ==
  \/ upPc = "await" /\ upCall.req = "aborted"
  \/ lvPc = "await" /\ lvCall.kind = "fetch" /\ lvCall.req = "aborted"

\* C28: every UptimeMonitor.checkSite and LinkValidator.fetchPage call
\* eventually resolves, under every ordering of the response, end, error and
\* timeout events, also when the headers arrive and the connection then
\* closes or stalls before the body has ended
C28_EveryCallSettles == CallPending ~> ~CallPending

\* what holds: a call settles unless its response is cut after the headers,
\* and a call in that state stays unsettled
C28_SettlesUnlessAborted ==
  /\ CallPending ~> (~CallPending \/ CallAborted)
  /\ [](CallAborted => [](CallAborted /\ CallPending))

-----------------------------------------------------------------------------
(* Properties of main, checked under SpecMain *)

\* the request of the call has been issued and its promise is not settled
Unresolved(call) ==
  /\ Has(call, "promise")
  /\ call.promise.state = "pending"
  /\ call.req # "none"

UnresolvedCalls ==
  (IF Unresolved(sslCall) THEN 1 ELSE 0) + (IF Unresolved(upCall) THEN 1 ELSE 0)
    + (IF Unresolved(lvCall) THEN 1 ELSE 0)

\* the step issues the request of a call
Opened(before, after) ==
  /\ Has(after, "req")
  /\ after.req = "open"
  /\ ~(Has(before, "req") /\ before.req = "open")

CallStarted ==
  \/ Opened(sslCall, sslCall')
  \/ Opened(upCall, upCall')
  \/ Opened(lvCall, lvCall')

\* C24: within a checker and across the three checkers that main runs,
\* network calls never overlap: at most one TLS handshake, page GET or link
\* HEAD is unresolved at any time, and a call is started only when every
\* earlier call has resolved
C24_CallsNeverOverlap ==
  /\ [](UnresolvedCalls <= 1)
  /\ [][CallStarted => UnresolvedCalls = 0]_vars

\* a link HEAD in flight after the certificate check and the availability
\* probe of the same run have resolved
C24_Witness ==
  /\ mainPc = "linksAwait"
  /\ lvCall.kind = "head"
  /\ Unresolved(lvCall)
  /\ Has(mainResults, "ssl")
  /\ Has(mainResults, "uptime")
  /\ sslRequests = 1
  /\ Len(upSeen) = 1

\* the checkers that main ran: those the options ask for
WasRun(kind) == mainOptions[kind]

\* the checker returned a summary to main
Reported(kind) == Has(mainResults, kind)

\* C26: main exits with code 0 if and only if every checker that was run
\* reported allHealthy true, and with a non-zero code whenever a checker
\* that was run reported allHealthy false, whether or not the email was sent
C26_ExitCodeFollowsHealth ==
  mainPc = "exited" =>
    LET kinds == {k \in {"ssl", "uptime", "links"} : WasRun(k)} IN
      /\ mainExit.code = 0 <=>
           \A k \in kinds : Reported(k) /\ mainResults[k].allHealthy
      /\ (\E k \in kinds : Reported(k) /\ ~mainResults[k].allHealthy) =>
           mainExit.code # 0

\* what holds: when main reaches its last lines the code is 0 exactly when
\* every checker that was run reported allHealthy true, whatever the email
\* result; a rejected checker ends the run with code 1; a run that ends
\* because a call can no longer settle ends with code 0
C26_ExitCodeAtProcessExit ==
  mainPc = "exited" =>
    LET kinds == {k \in {"ssl", "uptime", "links"} : WasRun(k)} IN
      /\ mainExit.from = "main" =>
           /\ \A k \in kinds : Reported(k)
           /\ mainExit.code = (IF \A k \in kinds : mainResults[k].allHealthy
                                 THEN 0 ELSE 1)
           /\ mainOptions.sendEmail <=> Has(mainEmail, "success")
      /\ mainExit.from = "catch" => mainExit.code = 1
      /\ mainExit.from = "loop" => mainExit.code = 0

====
